---- MODULE Spec2Model ----
(***************************************************************************)
(* Model of the dashcam recording session orchestrator.                    *)
(*                                                                         *)
(* Recorder (src/lib/recorder.js): the module state currentRecording,      *)
(* outputPath, recordingStartTime; startRecording(), stopRecording() and   *)
(* getRecordingStatus().  stopRecording() is an async function: every      *)
(* await at which other work can run is a position (pc) of a stop frame,   *)
(* and the code between two awaits is one action.  The capture process,    *)
(* the finalization subprocess, the file system and the tailed log files   *)
(* are the environment.                                                    *)
(* Log tracking (src/unnamed/part_002, src/lib/logs/cli/index.js): the     *)
(* LogsTrackerManager instances and the CLI trackers they own.             *)
(***************************************************************************)
EXTENDS Integers, Sequences, FiniteSets, TLC

\* ---------------------------------------------------------------- bounds
MaxSessions == 2   \* capture processes spawned by startRecording()
MaxStops == 2      \* stopRecording() calls (frames), possibly concurrent
MaxEvents == 1     \* log events delivered to one tracker

\* ------------------------------------------------------ program constants
NULL == 0          \* null: no process, no start time
Attempts == 3      \* const attempts = 3

\* ----------------------------------------------------------------- values
\* Date.now(): every startRecording() that spawns a process starts two units
\* after the one before it, and its own reads are at most one unit apart
StaleTime == 1     \* a time field of a log line, older than every Date.now()
Times == StaleTime..(StaleTime + 2 * MaxSessions + 1)
Pids == 1..MaxSessions
Frames == 1..MaxStops
LogFiles == {"app.log"}
Dirs == {"recordings", "out"}
FileStates == {"missing", "empty", "data"}

NoPath == <<"", "", 0>>
CustomPaths == {<<"out", "clip", 0>>}

\* generateOutputPath(): <cwd>/tmp/recordings/recording-<timestamp>.webm
generateOutputPath(now) == <<"recordings", "recording", now>>

\* path.dirname(p)
dirname(p) == p[1]

\* temp-<Date.now()>.webm in the directory of the output path
tempFilePath(out, now) == <<dirname(out), "temp", now>>

\* the recorder id startRecording() hands to logsTrackerManager.startNew:
\* the file name of a freshly generated output path, without .webm
StartRecorderId(out, now) == <<generateOutputPath(now)[2], generateOutputPath(now)[3]>>

\* the recorder id stopRecording() hands to logsTrackerManager.stop:
\* path.basename(outputPath) without .webm
StopRecorderId(out) == <<out[2], out[3]>>

AllPaths ==
  {generateOutputPath(t) : t \in Times}
    \cup {<<d, "temp", t>> : d \in Dirs, t \in Times}
    \cup CustomPaths
RecorderIds == {StopRecorderId(p) : p \in AllPaths \ {<<d, "temp", t>> : d \in Dirs, t \in Times}}

VARIABLES
  currentRecording,    \* NULL or the pid of the execa capture process
  outputPath,          \* NoPath or the final output path
  recordingStartTime,  \* NULL or Date.now() at start
  clock,               \* Date.now() of the next startRecording()
  startPc,             \* "idle" | "awaitStartNew": startRecording() position
  proc,                \* capture processes, by pid
  files,               \* the file system: state of every path
  app,                 \* applicationTracker is running
  cliConfig,           \* logsTrackerManager.cliConfig: tracked log files
  instances,           \* logsTrackerManager.instances: recorder id -> tracker
  trackers,            \* CLILogsTracker objects, by the pid they were made for
  frames,              \* stopRecording() invocations
  trim,                \* a trimLogs() call: its arguments, the files, its results
  router,              \* a WebTrackerManager and the transport it listens on
  perf,                \* a PerformanceTracker, its sample file and its ticks
  dom,                 \* the getPageDOM() requests of a WebTrackerManager
  shutdown,            \* the shutdown signalling of stopRecording() alone
  fileTracker,         \* a FileTracker, the lines appended to its file and its events
  logsManager,         \* a LogsTrackerManager: its instances and the trackers it created
  fileManager,         \* a FileTrackerManager: its entries by file path and the file trackers it created
  logsTracker,         \* a log tracker (CLILogsTracker or LogsTracker) and the event file it appends to
  background           \* the background recording process: its shutdown flag, status file and exit

\* the variables outside the recorder and its log tracking
others == <<trim, router, perf, dom, shutdown, fileTracker, logsManager, fileManager, logsTracker, background>>

\* the variables of the recorder and its log tracking
recorderVars == <<currentRecording, outputPath, recordingStartTime, clock, startPc,
                  proc, files, app, cliConfig, instances, trackers, frames>>

vars == <<currentRecording, outputPath, recordingStartTime, clock, startPc,
          proc, files, app, cliConfig, instances, trackers, frames, others>>

NoProc == [st |-> "none", temp |-> NoPath, sigs |-> {}]
NoTracker == [st |-> "none", files |-> {}, count |-> 0, times |-> <<>>]
NoResult == [outputPath |-> NoPath, clientStartDate |-> NULL, endTime |-> NULL,
             logs |-> <<>>, ok |-> FALSE]

\* A stopRecording() invocation: its position, the process it awaits, its
\* pending escalation timeouts, and the locals of its try block (tempFile, the
\* output path in finalizeArgs, i, success, the outcome of unlinkSync, the
\* log tracking results).  The locals are dead once the call has thrown or
\* returned; error and result are what the caller gets.
DoneFrame(err, res) ==
  [pc |-> "done", awaited |-> NULL, timers |-> "none", tempFile |-> NoPath,
   finalArg |-> NoPath, i |-> 0, success |-> FALSE, unlinked |-> "no",
   logs |-> <<>>, error |-> err, result |-> res]
IdleFrame ==
  [pc |-> "idle", awaited |-> NULL, timers |-> "none", tempFile |-> NoPath,
   finalArg |-> NoPath, i |-> 0, success |-> FALSE, unlinked |-> "no",
   logs |-> <<>>, error |-> "none", result |-> NoResult]

RecorderInit ==
  /\ currentRecording = NULL
  /\ outputPath = NoPath
  /\ recordingStartTime = NULL
  /\ clock = StaleTime + 1
  /\ startPc = "idle"
  /\ proc = [p \in Pids |-> NoProc]
  /\ files = [p \in AllPaths |-> "missing"]
  /\ app = FALSE
  /\ cliConfig = {}
  /\ instances = [r \in RecorderIds |-> NULL]
  /\ trackers = [p \in Pids |-> NoTracker]
  /\ frames = [f \in Frames |-> IdleFrame]

\* No trimLogs() call is made.
NoTrim == [pc |-> "none"]
NoRouter == [pc |-> "none"]
NoPerf == [pc |-> "none"]
NoDom == [pc |-> "none"]
NoShutdown == [pc |-> "none"]
NoBackground == [pc |-> "none"]
NoLogsTracker == [pc |-> "none"]
NoFileManager == [pc |-> "none"]
NoLogsManager == [pc |-> "none"]
NoFileTracker == [pc |-> "none"]

Init ==
  /\ RecorderInit
  /\ background = NoBackground
  /\ logsTracker = NoLogsTracker
  /\ fileManager = NoFileManager
  /\ logsManager = NoLogsManager
  /\ fileTracker = NoFileTracker
  /\ trim = NoTrim
  /\ router = NoRouter
  /\ perf = NoPerf
  /\ dom = NoDom
  /\ shutdown = NoShutdown

\* A microtask is pending: the continuation of `await logsTrackerManager.startNew`
\* runs before any timer, I/O callback or process event; only further synchronous
\* calls of the caller can run in between.
MicrotaskPending == startPc = "awaitStartNew"

\* ------------------------------------------------------------ log tracking

\* LogsTrackerManager.addCliLogFile(filePath); the log files are configured
\* before the first recording is started
AddCliLogFile(file) ==
  /\ UNCHANGED others
  /\ file \notin cliConfig
  /\ \A p \in Pids : proc[p].st = "none"
  /\ cliConfig' = cliConfig \cup {file}
  /\ UNCHANGED <<currentRecording, outputPath, recordingStartTime, clock, startPc,
                 proc, files, app, instances, trackers, frames>>

\* LogsTrackerManager.startNew({recorderId, screenId, directory}): a new
\* CLILogsTracker with a copy of cliConfig, registered under the recorder id
\* (an instance already registered under that id is overwritten, its tracker
\* is not destroyed).
startNewTrackers(pid) ==
  [trackers EXCEPT ![pid] =
     [st |-> "live", files |-> cliConfig, count |-> 0, times |-> <<>>]]
startNewInstances(recorderId, pid) == [instances EXCEPT ![recorderId] = pid]

\* LogsTrackerManager.stop({recorderId, screenId}): the statuses returned by
\* destroy() of the instance's tracker, [] when no instance has that id.
stopResults(recorderId) ==
  IF instances[recorderId] = NULL
    THEN <<>>
    ELSE <<[tracker |-> instances[recorderId],
            count |-> trackers[instances[recorderId]].count]>>
stopInstances(recorderId) == [instances EXCEPT ![recorderId] = NULL]
stopTrackers(recorderId) ==
  IF instances[recorderId] = NULL
    THEN trackers
    ELSE [trackers EXCEPT ![instances[recorderId]].st = "destroyed"]

\* event.time = event.time || Date.now()
EventTime(time, now) == IF time = NULL THEN now ELSE time

\* A line is appended to a tailed log file: FileTracker emits one event, and
\* the callback of every live CLI tracker that tracks the file appends it to
\* its event file and counts it.  time is the time field of the line, NULL
\* when the line has none.
Subscribed(file) == {p \in Pids : trackers[p].st = "live" /\ file \in trackers[p].files}
LogLine(file, time) ==
  /\ UNCHANGED others
  /\ ~MicrotaskPending
  /\ Subscribed(file) # {}
  /\ \A p \in Subscribed(file) : Len(trackers[p].times) < MaxEvents
  /\ trackers' = [p \in Pids |->
       IF p \in Subscribed(file)
         THEN [trackers[p] EXCEPT !.count = @ + 1, !.times = Append(@, EventTime(time, clock))]
         ELSE trackers[p]]
  /\ UNCHANGED <<currentRecording, outputPath, recordingStartTime, clock, startPc,
                 proc, files, app, cliConfig, instances, frames>>

\* --------------------------------------------------------- startRecording

\* if (currentRecording) throw new Error('Recording already in progress')
StartRejected_NoGuard == FALSE
StartRejected == currentRecording # NULL

NextPid ==
  IF \E p \in Pids : proc[p].st = "none"
    THEN CHOOSE p \in Pids : proc[p].st = "none" /\ \A q \in Pids : q < p => proc[q].st # "none"
    ELSE NULL

\* startRecording({customOutputPath}) up to its await.  custom = NoPath: no
\* custom output path.  k: Date.now() advances by k while the process is
\* spawned.  fsOk: fs.mkdirSync in generateOutputPath() succeeds.
StartCall(custom, k, fsOk) ==
  IF StartRejected THEN
    \* throw new Error('Recording already in progress')
    UNCHANGED vars
  ELSE IF custom = NoPath /\ ~fsOk THEN
    \* generateOutputPath() throws before outputPath is assigned
    UNCHANGED vars
  ELSE
    /\ NextPid # NULL
    /\ LET out == IF custom # NoPath THEN custom ELSE generateOutputPath(clock)
           pid == NextPid
           now == clock + k
       IN /\ outputPath' = out
          /\ clock' = clock + 2
          /\ app' = TRUE
          /\ IF fsOk THEN
               /\ proc' = [proc EXCEPT ![pid] =
                    [st |-> "running", temp |-> tempFilePath(out, clock), sigs |-> {}]]
               /\ currentRecording' = pid
               /\ recordingStartTime' = now
               /\ trackers' = startNewTrackers(pid)
               /\ instances' = startNewInstances(StartRecorderId(out, now), pid)
               /\ startPc' = "awaitStartNew"
             ELSE
               \* generateOutputPath() for the recorder id throws after the
               \* spawn: catch block of startRecording
               /\ proc' = [proc EXCEPT ![pid] =
                    [st |-> "running", temp |-> tempFilePath(out, clock), sigs |-> {}]]
               /\ currentRecording' = NULL
               /\ recordingStartTime' = NULL
               /\ UNCHANGED <<trackers, instances, startPc>>
          /\ UNCHANGED <<files, cliConfig, frames, others>>

\* startRecording() after `await logsTrackerManager.startNew(...)`: attaches
\* the output listener and returns {outputPath, startTime}
StartResume ==
  /\ UNCHANGED others
  /\ startPc = "awaitStartNew"
  /\ startPc' = "idle"
  /\ UNCHANGED <<currentRecording, outputPath, recordingStartTime, clock,
                 proc, files, app, cliConfig, instances, trackers, frames>>

\* -------------------------------------------------------- capture process

\* The capture process writes its temporary file.
CaptureWrite(p, s) ==
  /\ UNCHANGED others
  /\ ~MicrotaskPending
  /\ proc[p].st = "running"
  /\ files[proc[p].temp] = "missing"
  /\ s \in {"empty", "data"}
  /\ files' = [files EXCEPT ![proc[p].temp] = s]
  /\ UNCHANGED <<currentRecording, outputPath, recordingStartTime, clock, startPc,
                 proc, app, cliConfig, instances, trackers, frames>>

\* The capture process exits (on 'q', on a signal, or by itself).  Every
\* stopRecording() awaiting it resumes: clears its two timeouts and starts the
\* 1000 ms wait for the file system.
CaptureExit(p) ==
  /\ UNCHANGED others
  /\ ~MicrotaskPending
  /\ proc[p].st = "running"
  /\ proc' = [proc EXCEPT ![p].st = "exited", ![p].sigs = {}]
  /\ frames' = [f \in Frames |->
       IF frames[f].pc = "awaitExit" /\ frames[f].awaited = p
         THEN [frames[f] EXCEPT !.pc = "syncWait", !.timers = "none"]
         ELSE frames[f]]
  /\ UNCHANGED <<currentRecording, outputPath, recordingStartTime, clock, startPc,
                 files, app, cliConfig, instances, trackers>>

\* ---------------------------------------------------------- stopRecording

\* if (!currentRecording) throw new Error('No recording in progress')
StopRejected_NoGuard == FALSE
StopRejected == currentRecording = NULL

\* catch (error) { currentRecording = null; ... }
ClearedOnError_Keep(cur) == cur
ClearedOnError(cur) == NULL

\* !fs.existsSync(tempFile) || fs.statSync(tempFile).size === 0
CaptureEmpty(fileState) == fileState \in {"missing", "empty"}

\* exitCode === 0 && fs.existsSync(outputPath) && fs.statSync(outputPath).size > 0
AttemptSucceeded_ExitCodeOnly(exitCode, fileState) == exitCode = 0
AttemptSucceeded(exitCode, fileState) == exitCode = 0 /\ fileState = "data"

\* for (let i = 0; i < attempts && !success; i++)
LoopContinues(i, success) == i < Attempts /\ ~success

\* The frames take the calls in order.
NextFrame(f) == frames[f].pc = "idle" /\ \A g \in Frames : g < f => frames[g].pc # "idle"

\* The catch block of stopRecording: the session state is cleared, the
\* application tracker is stopped and the error is rethrown.
Throw(f, err) ==
  /\ currentRecording' = ClearedOnError(currentRecording)
  /\ recordingStartTime' = NULL
  /\ app' = FALSE
  /\ frames' = [frames EXCEPT ![f] = DoneFrame(err, NoResult)]

\* currentRecording.stdin.write('q') and process.kill(currentRecording.pid,
\* sig): the timeout callbacks read the module variable when they fire, and
\* .killed is never set, because nothing calls currentRecording.kill().  What
\* is sent to a process that has exited reaches nothing; the signals a process
\* has received are forgotten when it exits.
Signalled(sig) ==
  IF currentRecording # NULL /\ proc[currentRecording].st = "running"
    THEN [proc EXCEPT ![currentRecording].sigs = @ \cup {sig}]
    ELSE proc

\* stopRecording() up to `await currentRecording`: the quit command is
\* written to the capture process and the two escalation timeouts are set.
\* The await of a process that has already exited resumes at once, before
\* either timeout can fire.
StopCall(f) ==
  /\ UNCHANGED others
  /\ NextFrame(f)
  /\ IF StopRejected THEN
       /\ frames' = [frames EXCEPT ![f] = DoneFrame("NotActive", NoResult)]
       /\ UNCHANGED proc
     ELSE IF currentRecording = NULL THEN
       \* currentRecording.pid of null, before the try block
       /\ frames' = [frames EXCEPT ![f] = DoneFrame("TypeError", NoResult)]
       /\ UNCHANGED proc
     ELSE
       /\ proc' = Signalled("q")
       /\ frames' = [frames EXCEPT ![f] =
            [@ EXCEPT !.awaited = currentRecording,
                      !.pc = IF proc[currentRecording].st = "running"
                               THEN "awaitExit" ELSE "syncWait",
                      !.timers = IF proc[currentRecording].st = "running"
                                   THEN "both" ELSE "none"]]
  /\ UNCHANGED <<currentRecording, outputPath, recordingStartTime, clock, startPc,
                 files, app, cliConfig, instances, trackers>>

\* gracefulTimeout, 2000 ms after the quit command
GracefulTimeout(f) ==
  /\ UNCHANGED others
  /\ ~MicrotaskPending
  /\ frames[f].pc = "awaitExit"
  /\ frames[f].timers = "both"
  /\ proc' = Signalled("SIGTERM")
  /\ frames' = [frames EXCEPT ![f].timers = "hardKill"]
  /\ UNCHANGED <<currentRecording, outputPath, recordingStartTime, clock, startPc,
                 files, app, cliConfig, instances, trackers>>

\* hardKillTimeout, 5000 ms after the quit command
HardKillTimeout(f) ==
  /\ UNCHANGED others
  /\ ~MicrotaskPending
  /\ frames[f].pc = "awaitExit"
  /\ frames[f].timers = "hardKill"
  /\ proc' = Signalled("SIGKILL")
  /\ frames' = [frames EXCEPT ![f].timers = "none"]
  /\ UNCHANGED <<currentRecording, outputPath, recordingStartTime, clock, startPc,
                 files, app, cliConfig, instances, trackers>>

\* After the 1000 ms wait: the temporary file is taken from the spawn
\* arguments of the current process and checked, the finalization arguments
\* are built and the loop starts its first backoff wait.
SyncWaitDone(f) ==
  /\ UNCHANGED others
  /\ ~MicrotaskPending
  /\ frames[f].pc = "syncWait"
  /\ IF currentRecording = NULL THEN
       \* currentRecording.spawnargs of null
       Throw(f, "TypeError")
     ELSE IF CaptureEmpty(files[proc[currentRecording].temp]) THEN
       Throw(f, "CaptureEmpty")
     ELSE
       /\ frames' = [frames EXCEPT ![f] =
            [@ EXCEPT !.tempFile = proc[currentRecording].temp,
                      !.finalArg = outputPath,
                      !.pc = "backoff"]]
       /\ UNCHANGED <<currentRecording, recordingStartTime, app>>
  /\ UNCHANGED <<outputPath, clock, startPc, proc, files, cliConfig,
                 instances, trackers>>

\* fs.unlinkSync(tempFile) inside its own try/catch
unlinkResult(fs, path, unlinkOk) ==
  IF unlinkOk /\ fs[path] # "missing" THEN "ok" ELSE "failed"
unlinkFiles(fs, path, unlinkOk) ==
  IF unlinkOk /\ fs[path] # "missing" THEN [fs EXCEPT ![path] = "missing"] ELSE fs

\* if (!success) throw new Error('Failed to finalize recording after all
\* attempts') stands before the deletion of the temporary file: the deletion
\* is reached with success only.
ReachesCleanup_Always(success) == TRUE
ReachesCleanup(success) == success

\* The loop has ended without success.  fs is the file system as the last
\* attempt left it.
Exhausted(f, fs, unlinkOk) ==
  /\ files' = IF ReachesCleanup(FALSE)
                THEN unlinkFiles(fs, frames[f].tempFile, unlinkOk)
                ELSE fs
  /\ Throw(f, "FinalizeFailed")

\* After the backoff wait of attempt i + 1: the finalization subprocess is
\* spawned.  raises: execa fails to spawn it, which rejects the await inside
\* the attempt's try block; the last attempt rethrows.
BackoffDone(f, raises) ==
  /\ UNCHANGED others
  /\ ~MicrotaskPending
  /\ frames[f].pc = "backoff"
  /\ IF ~raises THEN
       /\ frames' = [frames EXCEPT ![f].pc = "finalizing"]
       /\ UNCHANGED <<currentRecording, recordingStartTime, app>>
       /\ UNCHANGED files
     ELSE IF frames[f].i = Attempts - 1 THEN
       \* if (i === attempts - 1) throw err
       /\ Throw(f, "SpawnError")
       /\ UNCHANGED files
     ELSE IF LoopContinues(frames[f].i + 1, frames[f].success) THEN
       /\ frames' = [frames EXCEPT ![f].i = @ + 1]
       /\ UNCHANGED <<currentRecording, recordingStartTime, app, files>>
     ELSE
       /\ Exhausted(f, files, TRUE)
  /\ UNCHANGED <<outputPath, clock, startPc, proc, cliConfig, instances, trackers>>

\* The finalization subprocess of attempt i + 1 exits with exitCode, having
\* left the file named by its arguments as `written` ("keep": untouched).
\* The attempt is judged against the module variable outputPath.  After a
\* successful attempt the code runs on without a wait: it deletes the
\* temporary file, stops the application tracker, stops log tracking under
\* the id taken from outputPath and starts the preview generation.
FinalizeExit(f, exitCode, written, unlinkOk) ==
  /\ UNCHANGED others
  /\ ~MicrotaskPending
  /\ frames[f].pc = "finalizing"
  /\ LET fs1 == IF written = "keep" THEN files
                ELSE [files EXCEPT ![frames[f].finalArg] = written]
         fr == frames[f]
     IN
     IF AttemptSucceeded(exitCode, fs1[outputPath]) THEN
       /\ files' = unlinkFiles(fs1, fr.tempFile, unlinkOk)
       /\ app' = FALSE
       /\ instances' = stopInstances(StopRecorderId(outputPath))
       /\ trackers' = stopTrackers(StopRecorderId(outputPath))
       /\ frames' = [frames EXCEPT ![f] =
            [fr EXCEPT !.success = TRUE,
                       !.unlinked = unlinkResult(fs1, fr.tempFile, unlinkOk),
                       !.logs = stopResults(StopRecorderId(outputPath)),
                       !.pc = "preview"]]
       /\ UNCHANGED <<currentRecording, recordingStartTime>>
     ELSE IF LoopContinues(fr.i + 1, fr.success) THEN
       /\ files' = fs1
       /\ frames' = [frames EXCEPT ![f] =
            [fr EXCEPT !.i = @ + 1, !.pc = "backoff"]]
       /\ UNCHANGED <<currentRecording, recordingStartTime, app, instances, trackers>>
     ELSE
       /\ Exhausted(f, fs1, unlinkOk)
       /\ UNCHANGED <<instances, trackers>>
  /\ UNCHANGED <<outputPath, clock, startPc, proc, cliConfig>>

\* createGif and createSnapshot have both settled.  ok: both succeeded.  The
\* result bundle is assembled (fs.statSync(outputPath) throws for a missing
\* file), the session state is cleared and the bundle is returned.
PreviewDone(f, ok) ==
  /\ UNCHANGED others
  /\ ~MicrotaskPending
  /\ frames[f].pc = "preview"
  /\ IF ~ok THEN
       Throw(f, "PreviewFailed")
     ELSE IF files[outputPath] = "missing" THEN
       Throw(f, "StatError")
     ELSE
       /\ currentRecording' = NULL
       /\ recordingStartTime' = NULL
       /\ app' = FALSE
       /\ frames' = [frames EXCEPT ![f] =
            DoneFrame("none", [outputPath |-> outputPath,
                                  clientStartDate |-> recordingStartTime,
                                  endTime |-> clock,
                                  logs |-> frames[f].logs,
                                  ok |-> TRUE])]
  /\ UNCHANGED <<outputPath, clock, startPc, proc, files, cliConfig,
                 instances, trackers>>

\* getRecordingStatus()
getRecordingStatus ==
  IF currentRecording = NULL
    THEN [isRecording |-> FALSE, outputPath |-> NoPath]
    ELSE [isRecording |-> TRUE, outputPath |-> outputPath]

\* ------------------------------------------------------------ specification
Next ==
  \/ \E file \in LogFiles : AddCliLogFile(file)
  \/ \E file \in LogFiles, time \in {NULL, StaleTime} : LogLine(file, time)
  \/ \E custom \in {NoPath} \cup CustomPaths, k \in 0..1, fsOk \in BOOLEAN :
       StartCall(custom, k, fsOk)
  \/ StartResume
  \/ \E p \in Pids, s \in FileStates : CaptureWrite(p, s)
  \/ \E p \in Pids : CaptureExit(p)
  \/ \E f \in Frames : StopCall(f)
  \/ \E f \in Frames : GracefulTimeout(f)
  \/ \E f \in Frames : HardKillTimeout(f)
  \/ \E f \in Frames : SyncWaitDone(f)
  \/ \E f \in Frames, raises \in BOOLEAN : BackoffDone(f, raises)
  \/ \E f \in Frames, exitCode \in 0..1, written \in {"keep", "empty", "data"},
        unlinkOk \in BOOLEAN : FinalizeExit(f, exitCode, written, unlinkOk)
  \/ \E f \in Frames, ok \in BOOLEAN : PreviewDone(f, ok)

Spec == Init /\ [][Next]_vars

\* ------------------------------------------------------------- properties
\* A startRecording() call of any argument and outcome.
StartStep ==
  \E custom \in {NoPath} \cup CustomPaths, k \in 0..1, fsOk \in BOOLEAN :
    StartCall(custom, k, fsOk)

\* The stopRecording() invocation f, begun on an active session, throws or
\* returns in this step.
Completes(f) == frames[f].pc \notin {"idle", "done"} /\ frames'[f].pc = "done"

\* The stopRecording() invocation f returns its result bundle in this step.
Returns(f) == Completes(f) /\ frames'[f].result.ok

\* C1: a startRecording() issued while a session is active - also while the
\* first start still awaits the log trackers, or while a stop is in progress -
\* launches no capture process and leaves the active session's process
\* handle, output path and start time, the log tracking and every other
\* variable as they were.
C1_StartWhileActiveRejected ==
  [][(currentRecording # NULL /\ StartStep) => UNCHANGED vars]_vars

\* A session is active, a stop of it is waiting for its finalization
\* subprocess, and startRecording() can be called: the call is rejected and
\* its post-state is this very state.
C1_Witness ==
  /\ currentRecording # NULL
  /\ StartRejected
  /\ \E f \in Frames : frames[f].pc = "finalizing"
  /\ NextPid # NULL
  /\ ENABLED StartStep

\* C2: when a stopRecording() begun on an active session completes, by
\* returning or by throwing, the session state is cleared: no process handle,
\* no start time, getRecordingStatus() reports not recording, and a following
\* startRecording() is not rejected as already in progress.
C2_StopClearsSession ==
  [][\A f \in Frames : Completes(f) =>
        /\ currentRecording' = NULL
        /\ recordingStartTime' = NULL
        /\ ~getRecordingStatus'.isRecording
        /\ ~StartRejected']_vars

\* A stop has failed after its finalization attempts and a new session has
\* been started afterwards.
C2_Witness ==
  \E f \in Frames :
    /\ frames[f].pc = "done"
    /\ frames[f].error = "FinalizeFailed"
    /\ currentRecording # NULL
    /\ proc[currentRecording].st = "running"
    /\ \E q \in Pids : q # currentRecording /\ proc[q].st = "exited"

\* C3: stopRecording() called while no session is active fails with 'No
\* recording in progress' and changes nothing: no variable of the recorder,
\* no process, no file, no log tracker and no other invocation.
C3_StopWhenIdleRejected ==
  [][\A f \in Frames : (currentRecording = NULL /\ StopCall(f)) =>
        /\ frames'[f] = DoneFrame("NotActive", NoResult)
        /\ \A g \in Frames \ {f} : frames'[g] = frames[g]
        /\ UNCHANGED <<currentRecording, outputPath, recordingStartTime, clock,
                       startPc, proc, files, app, cliConfig, instances,
                       trackers>>]_vars

\* A stop was rejected as not active while a capture process of a failed
\* start was still running.
C3_Witness ==
  \E f \in Frames :
    /\ frames[f].pc = "done"
    /\ frames[f].error = "NotActive"
    /\ currentRecording = NULL
    /\ \E p \in Pids : proc[p].st = "running"

\* C4: when a stopRecording() begun on an active session completes, on the
\* success path or on any failure path, the application tracker is stopped
\* and the log tracker started for that session is no longer live.
C4_TrackersStoppedOnEveryPath ==
  [][\A f \in Frames : Completes(f) =>
        /\ ~app'
        /\ trackers'[frames[f].awaited].st # "live"]_vars

\* C5: when stopRecording() returns a result bundle, the capture process of
\* the session has exited, the log tracker started for the session has been
\* destroyed and unregistered, and the bundle's logs are the statuses that
\* tracker collected.
C5_BundleFromQuiescedSession ==
  [][\A f \in Frames : Returns(f) =>
        LET p == frames[f].awaited IN
        /\ proc'[p].st = "exited"
        /\ trackers'[p].st = "destroyed"
        /\ \A r \in RecorderIds : instances'[r] # p
        /\ frames'[f].result.logs =
             <<[tracker |-> p, count |-> trackers'[p].count]>>]_vars

\* The finalization attempt i + 1 of invocation f ends in this step, by the
\* exit of its subprocess or by a failure to spawn it.
AttemptExits(f, exitCode) ==
  \E written \in {"keep", "empty", "data"}, unlinkOk \in BOOLEAN :
    FinalizeExit(f, exitCode, written, unlinkOk)
AttemptRaises(f) == BackoffDone(f, TRUE)

\* C6: finalization runs at most 3 attempts, one after the other, and none
\* after a successful one; an attempt succeeds exactly when its subprocess
\* exits with code 0 and the file at the output path then exists and is
\* non-empty; a failed first or second attempt is followed by the next one,
\* so a stop whose first two attempts fail and whose third succeeds goes on
\* to its result.
C6_FinalizeAttempts ==
  /\ [](\A f \in Frames :
         /\ frames[f].i \in 0..(Attempts - 1)
         /\ frames[f].pc \in {"backoff", "finalizing"} => ~frames[f].success
         /\ frames[f].success => frames[f].pc = "preview")
  /\ [][\A f \in Frames, exitCode \in 0..1 : AttemptExits(f, exitCode) =>
          IF exitCode = 0 /\ files'[outputPath] = "data"
            THEN /\ frames'[f].pc = "preview"
                 /\ frames'[f].success
                 /\ frames'[f].i = frames[f].i
            ELSE IF frames[f].i < Attempts - 1
              THEN /\ frames'[f].pc = "backoff"
                   /\ frames'[f].i = frames[f].i + 1
              ELSE frames'[f].pc = "done" /\ ~frames'[f].result.ok]_vars
  /\ [][\A f \in Frames : AttemptRaises(f) =>
          IF frames[f].i < Attempts - 1
            THEN /\ frames'[f].pc = "backoff"
                 /\ frames'[f].i = frames[f].i + 1
            ELSE frames'[f].pc = "done" /\ ~frames'[f].result.ok]_vars

\* Two attempts of a stop have failed and its third has succeeded.
C6_Witness ==
  \E f \in Frames :
    /\ frames[f].pc = "preview"
    /\ frames[f].i = Attempts - 1
    /\ frames[f].success
    /\ files[outputPath] = "data"

\* The third finalization attempt of invocation f fails in this step.
ThirdAttemptFails(f) ==
  /\ frames[f].pc \in {"backoff", "finalizing"}
  /\ frames[f].i = Attempts - 1
  /\ frames'[f].pc = "done"

\* Invocation f takes a step that deletes its temporary file.
DeletesTemp(f) ==
  /\ frames'[f] # frames[f]
  /\ frames[f].tempFile # NoPath
  /\ files[frames[f].tempFile] # "missing"
  /\ files'[frames[f].tempFile] = "missing"

\* C7 as stated: when all 3 finalization attempts fail, stopRecording() fails
\* with 'Failed to finalize recording after all attempts' and does not delete
\* the temporary file; when an attempt succeeds the temporary file is deleted
\* unless the deletion fails, and a failed deletion does not fail the stop.
C7_Original ==
  [][\A f \in Frames :
        /\ ThirdAttemptFails(f) =>
             /\ frames'[f].error = "FinalizeFailed"
             /\ files'[frames[f].tempFile] = files[frames[f].tempFile]
        /\ DeletesTemp(f) => frames'[f].success
        /\ (frames[f].pc = "finalizing" /\ frames'[f].success) =>
             /\ frames'[f].pc = "preview"
             /\ frames'[f].unlinked # "no"
             /\ frames'[f].unlinked = "ok" => files'[frames[f].tempFile] = "missing"]_vars

\* C7 amended: as C7, but the error of a stop whose every attempt failed is
\* 'Failed to finalize recording after all attempts' when the third attempt's
\* subprocess ran and failed, and the third attempt's own error when that
\* attempt could not be run.
C7_Amended ==
  [][\A f \in Frames :
        /\ ThirdAttemptFails(f) =>
             /\ frames'[f].error =
                  IF AttemptRaises(f) THEN "SpawnError" ELSE "FinalizeFailed"
             /\ files'[frames[f].tempFile] = files[frames[f].tempFile]
        /\ DeletesTemp(f) => frames'[f].success
        /\ (frames[f].pc = "finalizing" /\ frames'[f].success) =>
             /\ frames'[f].pc = "preview"
             /\ frames'[f].unlinked # "no"
             /\ frames'[f].unlinked = "ok" => files'[frames[f].tempFile] = "missing"]_vars

\* A stop has failed because its third attempt could not be run, and the
\* temporary file of its session is still there.
C7_Witness ==
  \E f \in Frames, p \in Pids :
    /\ frames[f].pc = "done"
    /\ frames[f].error = "SpawnError"
    /\ proc[p].st = "exited"
    /\ files[proc[p].temp] = "data"

\* C8: when invocation f reaches the end of its wait for the capture process
\* and the file system sync, and the temporary file of the session it stops
\* is missing or empty, it fails with 'Recording file is empty or missing',
\* runs no finalization attempt (writes and deletes no file) and returns no
\* result bundle.
C8_CaptureEmptyFails ==
  [][\A f \in Frames :
        (/\ SyncWaitDone(f)
         /\ files[proc[frames[f].awaited].temp] \in {"missing", "empty"}) =>
        /\ frames'[f].pc = "done"
        /\ frames'[f].error = "CaptureEmpty"
        /\ ~frames'[f].result.ok
        /\ files' = files]_vars

\* A step of invocation f that the program itself brings about within a
\* bounded time: one of its timeouts fires, one of its timed waits ends, the
\* preview generation settles, or the capture process it has force-killed
\* exits.
BoundedStep(f) ==
  \/ GracefulTimeout(f)
  \/ HardKillTimeout(f)
  \/ SyncWaitDone(f)
  \/ \E raises \in BOOLEAN : BackoffDone(f, raises)
  \/ \E ok \in BOOLEAN : PreviewDone(f, ok)
  \/ /\ frames[f].pc = "awaitExit"
     /\ "SIGKILL" \in proc[frames[f].awaited].sigs
     /\ CaptureExit(frames[f].awaited)

\* C9: a stopRecording() in progress is never left waiting on something only
\* the outside world can end: at each of its blocking steps a timeout, a
\* timed wait or a force-kill issued by the program is pending.
C9_EveryWaitBounded ==
  \A f \in Frames :
    (frames[f].pc \notin {"idle", "done"} /\ ~MicrotaskPending) =>
      ENABLED BoundedStep(f)

\* The events of tracker p whose time lies in [from, to].
InWindow(p, from, to) ==
  {n \in 1..Len(trackers[p].times) :
     from <= trackers[p].times[n] /\ trackers[p].times[n] <= to}

\* C10: every log source status in a returned result bundle counts only
\* events inside the session window [clientStartDate, endTime].
C10_BundleLogsTrimmed ==
  \A f \in Frames : frames[f].result.ok =>
    \A n \in 1..Len(frames[f].result.logs) :
      LET status == frames[f].result.logs[n] IN
      status.count = Cardinality(InWindow(status.tracker,
                                          frames[f].result.clientStartDate,
                                          frames[f].result.endTime))

\* ================================================================ trimLogs
\* trimLogs(groupLogStatuses, startMS, endMS, clientStartDate, clipId) of
\* src/unnamed/part_002.  It has no await: a call is one action.  Times are
\* counted in seconds, so that the reinterpretation threshold of
\* 1_000_000_000_000 ms is 1000000000.
MaxLines == 2               \* lines in the source files of one call
Threshold == 1000000000     \* if (eventTime > 1_000_000_000_000)
Epoch == 1700000000         \* an absolute time, as Date.now() returns it
Sources == 1..2

\* A JSON value in a time position: a number, a non-numeric string (truthy,
\* parsed to NaN), or no field at all.
Num(v) == [k |-> "num", v |-> v]
NaN == [k |-> "nan", v |-> 0]
NoField == [k |-> "none", v |-> 0]

\* A value in the logFile position: a raw name, the integer that replaces it,
\* or no field.
FileName(name) == [k |-> "str", v |-> 0, s |-> name]
FileNumber(v) == [k |-> "int", v |-> v, s |-> ""]
NoFile == [k |-> "none", v |-> 0, s |-> ""]

\* a || b
Truthy(x) == x.k = "nan" \/ (x.k = "num" /\ x.v # 0)
Or(a, b) == IF Truthy(a) THEN a ELSE b

\* parseInt(x), x - n and x > n on numbers and NaN
ParseInt(x) == IF x.k = "num" THEN x ELSE NaN
Minus(x, n) == IF x.k = "num" THEN Num(x.v - n) ELSE NaN
Greater_OrEqual(x, n) == x.k = "num" /\ x.v >= n
Greater(x, n) == x.k = "num" /\ x.v > n

\* The lines of a source file: one that JSON.parse rejects, or an event.
BadLine == [bad |-> TRUE, time |-> NoField, timestamp |-> NoField, logFile |-> NoFile]
TimePairs ==
  {<<t, NoField>> : t \in {NaN, Num(1), Num(2), Num(Threshold + 1), Num(Epoch)}}
    \cup {<<t, ts>> : t \in {NoField, Num(0)}, ts \in {NoField, Num(2)}}
RawLogFiles == {NoFile, FileName("/a"), FileName("/b")}
LineKinds ==
  {BadLine} \cup
  {[bad |-> FALSE, time |-> tp[1], timestamp |-> tp[2], logFile |-> lf] :
     tp \in TimePairs, lf \in RawLogFiles}

\* The status objects of a call and the files they name.
NoArtifact == <<"", "", "">>
FileLocation(i) == <<"/logs", IF i = 1 THEN "a.jsonl" ELSE "b.jsonl">>
SourceInputs(len) ==
  {[type |-> ty, zero |-> z, exists |-> TRUE, lines |-> ls] :
     ty \in {"cli", "web"}, z \in BOOLEAN, ls \in [1..len -> LineKinds]}
    \cup {[type |-> ty, zero |-> z, exists |-> FALSE, lines |-> << >>] :
            ty \in {"cli", "web"}, z \in {b \in BOOLEAN : len = 0}}
RawCount(in) == IF in.zero THEN 0 ELSE IF Len(in.lines) = 0 THEN 1 ELSE Len(in.lines)
Status(i, in) ==
  [type |-> in.type, fileLocation |-> FileLocation(i), count |-> RawCount(in),
   trimmedFileLocation |-> NoArtifact]
TrimCall(in1, in2, startMS, endMS) ==
  [pc |-> "called",
   statuses |-> <<Status(1, in1), Status(2, in2)>>,
   exists |-> <<in1.exists, in2.exists>>,
   content |-> <<in1.lines, in2.lines>>,
   startMS |-> startMS, endMS |-> endMS,
   clientStartDate |-> Epoch, now |-> Epoch + 1, clipId |-> "clip",
   relativeEvents |-> <<<< >>, << >>>>,
   artifacts |-> <<<< >>, << >>>>,
   returned |-> << >>]
Splits == {c \in (0..MaxLines) \X (0..MaxLines) : c[1] + c[2] <= MaxLines}

\* lines.map(JSON.parse or null).filter(Boolean): the events of the lines
\* that parse; n is the number of the line an event came from (its content)
ParsedLines_AbortOnFailure(lines) ==
  IF \E i \in 1..Len(lines) : lines[i].bad
    THEN << >>
    ELSE [i \in 1..Len(lines) |->
            [n |-> i, time |-> lines[i].time, timestamp |-> lines[i].timestamp,
             logFile |-> lines[i].logFile]]
ParsedLines(lines) ==
  LET numbered == [i \in 1..Len(lines) |->
                     [n |-> i, bad |-> lines[i].bad, time |-> lines[i].time,
                      timestamp |-> lines[i].timestamp, logFile |-> lines[i].logFile]]
      Parses(e) == ~e.bad
      ok == SelectSeq(numbered, Parses)
  IN [i \in 1..Len(ok) |->
        [n |-> ok[i].n, time |-> ok[i].time, timestamp |-> ok[i].timestamp,
         logFile |-> ok[i].logFile]]

\* let eventTime = parseInt(event.time || event.timestamp || Date.now());
\* eventTime = eventTime - startMS;
\* if (eventTime > 1_000_000_000_000) eventTime = eventTime - clientStartDate
RelativeTime(event, startMS, clientStartDate, now) ==
  LET eventTime == Minus(ParseInt(Or(Or(event.time, event.timestamp), Num(now))), startMS)
  IN IF Greater(eventTime, Threshold)
       THEN Minus(eventTime, clientStartDate)
       ELSE eventTime

\* event.time >= 0 && event.time <= duration
InDuration_NoLowerBound(time, duration) == time.k = "num" /\ time.v <= duration
InDuration(time, duration) == time.k = "num" /\ time.v >= 0 /\ time.v <= duration

\* The anonymization of the CLI events from event i on; fileMap maps the raw
\* names seen so far to their integers.
RECURSIVE AnonymizeFrom(_, _, _)
AnonymizeFrom(events, i, fileMap) ==
  IF i > Len(events) THEN << >>
  ELSE IF events[i].logFile.k # "none" THEN
    LET raw == events[i].logFile
        anonymizedName == IF raw \in DOMAIN fileMap
                            THEN fileMap[raw]
                            ELSE Cardinality(DOMAIN fileMap) + 1
        fileMap2 == IF raw \in DOMAIN fileMap
                      THEN fileMap
                      ELSE (raw :> anonymizedName) @@ fileMap
    IN <<[events[i] EXCEPT !.logFile = FileNumber(anonymizedName)]>>
         \o AnonymizeFrom(events, i + 1, fileMap2)
  ELSE <<events[i]>> \o AnonymizeFrom(events, i + 1, fileMap)

\* let relativeEvents = events.map((event) => ({...event, time: eventTime}))
RelativeEvents(lines, startMS, clientStartDate, now) ==
  LET events == ParsedLines(lines)
  IN [i \in 1..Len(events) |->
        [events[i] EXCEPT !.time = RelativeTime(events[i], startMS, clientStartDate, now)]]

\* filteredEvents of one status
FilteredEvents(type, lines, startMS, endMS, clientStartDate, now) ==
  LET relativeEvents == RelativeEvents(lines, startMS, clientStartDate, now)
      duration == endMS - startMS
      InRange(e) == InDuration(e.time, duration)
      kept == SelectSeq(relativeEvents, InRange)
  IN IF type = "cli" THEN AnonymizeFrom(kept, 1, << >>) ELSE kept

\* groupLogStatuses.filter((status) => status.count > 0)
HasEvents_All(status) == TRUE
HasEvents(status) == status.count > 0

\* if (filteredEvents.length > 0): the trimmed file is written
WritesArtifact_Always(filteredEvents) == TRUE
WritesArtifact(filteredEvents) == Len(filteredEvents) > 0

\* `${clipId}_${parsed.base}` in path.dirname(status.fileLocation)
TrimmedFile(clipId, fileLocation) == <<fileLocation[1], clipId, fileLocation[2]>>

\* The body of the loop runs for status i of the call t.
Processed(t, i) == HasEvents(t.statuses[i]) /\ t.exists[i]
TrimmedEvents(t, i) ==
  FilteredEvents(t.statuses[i].type, t.content[i], t.startMS, t.endMS,
                 t.clientStartDate, t.now)

\* trimLogs(...): every status that has a count and whose file exists gets
\* its count set and, if events remain, its trimmed file written; the
\* statuses that had a count are returned.
TrimLogs ==
  /\ trim.pc = "called"
  /\ trim' = [trim EXCEPT
       !.pc = "done",
       !.statuses = [i \in Sources |->
          IF Processed(trim, i)
            THEN [trim.statuses[i] EXCEPT
                    !.count = Len(TrimmedEvents(trim, i)),
                    !.trimmedFileLocation =
                       IF WritesArtifact(TrimmedEvents(trim, i))
                         THEN TrimmedFile(trim.clipId, trim.statuses[i].fileLocation)
                         ELSE @]
            ELSE trim.statuses[i]],
       !.relativeEvents = [i \in Sources |->
          IF Processed(trim, i)
            THEN RelativeEvents(trim.content[i], trim.startMS, trim.clientStartDate, trim.now)
            ELSE << >>],
       !.artifacts = [i \in Sources |->
          IF Processed(trim, i) /\ WritesArtifact(TrimmedEvents(trim, i))
            THEN TrimmedEvents(trim, i)
            ELSE << >>],
       !.returned = LET Kept(i) == HasEvents(trim.statuses[i])
                    IN SelectSeq(<<1, 2>>, Kept)]
  /\ UNCHANGED <<recorderVars, router, perf, dom, shutdown, fileTracker, logsManager, fileManager, logsTracker, background>>

InitTrim ==
  /\ RecorderInit
  /\ background = NoBackground
  /\ logsTracker = NoLogsTracker
  /\ fileManager = NoFileManager
  /\ logsManager = NoLogsManager
  /\ fileTracker = NoFileTracker
  /\ router = NoRouter
  /\ perf = NoPerf
  /\ dom = NoDom
  /\ shutdown = NoShutdown
  /\ \E c \in Splits :
       \E in1 \in SourceInputs(c[1]), in2 \in SourceInputs(c[2]),
          startMS \in {0, 1}, endMS \in {0, 2} :
         trim = TrimCall(in1, in2, startMS, endMS)
NextTrim == TrimLogs
SpecTrim == InitTrim /\ [][NextTrim]_vars

\* ------------------------------------------------- properties of trimLogs
\* The step of a trimLogs() call.
TrimStep == trim.pc = "called" /\ trim'.pc = "done"

\* C11: every event written to a trimmed file has a numeric time t with
\* 0 <= t <= endMS - startMS, whatever the source type, the arguments and the
\* time fields of the source events were.
C11_TrimmedTimesInWindow ==
  trim.pc = "done" =>
    \A i \in Sources : \A p \in 1..Len(trim.artifacts[i]) :
      /\ trim.artifacts[i][p].time.k = "num"
      /\ 0 <= trim.artifacts[i][p].time.v
      /\ trim.artifacts[i][p].time.v <= trim.endMS - trim.startMS

\* A trimmed file holds an event whose time was reinterpreted as absolute and
\* an event that had no time field.
C11_Witness ==
  /\ trim.pc = "done"
  /\ \E i \in Sources : \E p, q \in 1..Len(trim.artifacts[i]) :
       /\ trim.content[i][trim.artifacts[i][p].n].time = Num(Epoch)
       /\ trim.content[i][trim.artifacts[i][q].n].time = NoField

\* C12: every source event with a numeric time in [startMS, endMS] whose
\* offset from startMS is at most the threshold is written with
\* time = eventTime - startMS, and the written events are in input order.
C12_InWindowEventsKept ==
  [][TrimStep => \A i \in Sources : Processed(trim, i) =>
       /\ \A j \in 1..Len(trim.content[i]) :
            LET line == trim.content[i][j] IN
            (/\ ~line.bad
             /\ line.time.k = "num"
             /\ trim.startMS <= line.time.v
             /\ line.time.v <= trim.endMS
             /\ line.time.v - trim.startMS <= Threshold) =>
            \E p \in 1..Len(trim'.artifacts[i]) :
              /\ trim'.artifacts[i][p].n = j
              /\ trim'.artifacts[i][p].time = Num(line.time.v - trim.startMS)
       /\ \A p, q \in 1..Len(trim'.artifacts[i]) :
            p < q => trim'.artifacts[i][p].n < trim'.artifacts[i][q].n]_vars

\* The events written by a finished call for CLI sources whose source event
\* had a logFile, as <<source, position in the trimmed file>>; the raw
\* logFile value and the anonymized value of such an event.
AnonymizedEvents ==
  {w \in Sources \X (1..MaxLines) :
     /\ trim.statuses[w[1]].type = "cli"
     /\ w[2] <= Len(trim.artifacts[w[1]])
     /\ trim.content[w[1]][trim.artifacts[w[1]][w[2]].n].logFile # NoFile}
RawLogFile(w) == trim.content[w[1]][trim.artifacts[w[1]][w[2]].n].logFile
Anonymized(w) == trim.artifacts[w[1]][w[2]].logFile

\* C13: within one trimLogs call the anonymization is a consistent injective
\* mapping: written events with the same raw logFile carry the same integer,
\* events with different raw logFiles carry different integers, and the
\* integers are 1..k, given out in order of first appearance.
C13_AnonymizationInjective ==
  trim.pc = "done" =>
    /\ \A w \in AnonymizedEvents : Anonymized(w).k = "int"
    /\ \A w1, w2 \in AnonymizedEvents :
         (RawLogFile(w1) = RawLogFile(w2)) <=> (Anonymized(w1) = Anonymized(w2))
    /\ {Anonymized(w).v : w \in AnonymizedEvents}
         = 1..Cardinality({RawLogFile(w) : w \in AnonymizedEvents})
    /\ \A w1, w2 \in AnonymizedEvents :
         (w1[1] = w2[1] /\ w1[2] < w2[2]) =>
           Anonymized(w2).v <= Anonymized(w1).v + 1

\* Status i was in the filtered list of the finished call and its file existed.
WasProcessed(i) ==
  /\ \E r \in 1..Len(trim.returned) : trim.returned[r] = i
  /\ trim.exists[i]

\* C14: for each source trimLogs processes, the count becomes the number of
\* surviving events; if there are survivors the artifact
\* '<clipId>_<basename>' next to the source file holds exactly them and
\* trimmedFileLocation names it; if there are none, no artifact is written
\* and trimmedFileLocation stays unset.
C14_CountAndArtifact ==
  [][TrimStep =>
       \A i \in Sources : Processed(trim, i) =>
         LET survivors == TrimmedEvents(trim, i)
             status == trim'.statuses[i]
         IN /\ status.count = Len(survivors)
            /\ Len(survivors) > 0 =>
                 /\ trim'.artifacts[i] = survivors
                 /\ status.trimmedFileLocation =
                      <<trim.statuses[i].fileLocation[1], trim.clipId,
                        trim.statuses[i].fileLocation[2]>>
            /\ Len(survivors) = 0 =>
                 /\ trim'.artifacts[i] = << >>
                 /\ status.trimmedFileLocation = NoArtifact]_vars

\* A finished call that processed two sources: one with survivors, written to
\* its artifact, and one whose events were all dropped.
C14_Witness ==
  /\ trim.pc = "done"
  /\ \E i, j \in Sources :
       /\ WasProcessed(i) /\ WasProcessed(j)
       /\ trim.statuses[i].count > 0
       /\ Len(trim.artifacts[i]) = trim.statuses[i].count
       /\ trim.statuses[i].trimmedFileLocation # NoArtifact
       /\ trim.statuses[j].count = 0
       /\ Len(trim.content[j]) > 0
       /\ trim.statuses[j].trimmedFileLocation = NoArtifact

\* C15: a trimLogs call whose sources all have a count of zero writes no
\* trimmed file and leaves every status as it was, its count still zero.
C15_EmptyInputUnchanged ==
  [][(TrimStep /\ \A i \in Sources : trim.statuses[i].count = 0) =>
       /\ trim'.statuses = trim.statuses
       /\ \A i \in Sources : trim'.artifacts[i] = << >>]_vars

\* A finished call on two statuses with count zero, one of which names an
\* existing file holding an event inside the recording window.
C15_Witness ==
  /\ trim.pc = "done"
  /\ trim.returned = << >>
  /\ \A i \in Sources : trim.statuses[i].count = 0
  /\ \E i \in Sources :
       /\ trim.exists[i]
       /\ \E j \in 1..Len(trim.content[i]) :
            /\ ~trim.content[i][j].bad
            /\ trim.content[i][j].time = Num(1)
            /\ trim.startMS <= 1 /\ 1 <= trim.endMS

\* The lines of a file that JSON.parse accepts, and what a trimmed file says
\* about its events apart from the line they came from.
GoodLines(lines) == LET Parses(line) == ~line.bad IN SelectSeq(lines, Parses)
Written(events) ==
  [k \in 1..Len(events) |-> [time |-> events[k].time, logFile |-> events[k].logFile]]

\* C16: a line that fails to parse removes only that line: the call finishes,
\* and for every processed source the count and the trimmed file are those
\* of the same file without its unparsable lines.
C16_BadLineDropsOnlyItself ==
  [][TrimStep =>
       \A i \in Sources : Processed(trim, i) =>
         LET expected == FilteredEvents(trim.statuses[i].type, GoodLines(trim.content[i]),
                                        trim.startMS, trim.endMS,
                                        trim.clientStartDate, trim.now)
         IN /\ trim'.statuses[i].count = Len(expected)
            /\ Written(trim'.artifacts[i]) = Written(expected)]_vars

\* A finished call in which a file made of an unparsable line and a line
\* inside the recording window was trimmed to that one event.
C16_Witness ==
  /\ trim.pc = "done"
  /\ \E i \in Sources :
       /\ WasProcessed(i)
       /\ Len(trim.content[i]) = 2
       /\ \E j \in 1..2 : trim.content[i][j].bad
       /\ Len(trim.artifacts[i]) = 1
       /\ trim.statuses[i].count = 1

\* ---------------------------------------------------------------------
\* WebTrackerManager (src/lib/tracking.js): the router of extension events
\* ---------------------------------------------------------------------
TabIds == 1..2
Urls == {"a.com", "b.com"}
NoUrl == "undefined"
\* "constructor" names a property every plain object inherits
Patterns == {"*", "a.com", "constructor"}
ObjectPrototypeKeys == {"constructor"}
Callbacks == {"h1", "h2"}
\* the handlers that throw when they are called
Throwing == {"h2"}

NavigationTypes ==
  {"INITIAL_TABS", "TAB_REMOVED", "TAB_ACTIVATED", "NAVIGATION_STARTED",
   "NAVIGATION_COMPLETED"}
OtherTypes == {"NETWORK_REQUEST"}
Events == [type : NavigationTypes \cup OtherTypes, tabId : TabIds, url : Urls]
NoEvent == [type |-> "none", tabId |-> 0, url |-> NoUrl]

NoTab == [present |-> FALSE, url |-> NoUrl, previousUrl |-> NoUrl]
Tab(url, previousUrl) == [present |-> TRUE, url |-> url, previousUrl |-> previousUrl]

\* verifyPattern(pattern, url): a wildcard pattern against a candidate string
VerifyPattern(pattern, url) == url # NoUrl /\ (pattern = "*" \/ pattern = url)

\* updateTabsState(event, tabs): tabs change only on tab and navigation
\* events; previousUrl keeps the url the tab is leaving.
UpdateTabsState(event, tabs) ==
  CASE event.type = "INITIAL_TABS" ->
         [t \in TabIds |-> IF t = event.tabId THEN Tab(event.url, NoUrl) ELSE NoTab]
    [] event.type = "TAB_REMOVED" -> [tabs EXCEPT ![event.tabId] = NoTab]
    [] event.type = "NAVIGATION_STARTED" ->
         [tabs EXCEPT ![event.tabId] = Tab(event.url, @.url)]
    [] event.type = "NAVIGATION_COMPLETED" ->
         [tabs EXCEPT ![event.tabId] = Tab(event.url, @.previousUrl)]
    [] OTHER -> tabs

endMessage == [type |-> "STOP_RECORDING", payload |-> {}]
StartMessage(patterns) == [type |-> "START_RECORDING", payload |-> patterns]

\* this.eventCallbacks.value.size + this.globalTabsAndNavigationCallbacks.size
Size(r) == Len(r.patternsByCallback) + Len(r.globalTabsAndNavigationCallbacks)

\* Array.from(new Set(this.patternsByCallback.values()))
PatternValues(r) ==
  {r.patternsByCallback[i].pattern : i \in 1..Len(r.patternsByCallback)}

\* #start(): announce the patterns and attach the two transport listeners,
\* unless the transport is not listening or the listeners are attached.
Start_Reattach(r) ==
  IF ~r.isListening THEN r
  ELSE [r EXCEPT
          !.sent = Append(@, StartMessage(IF PatternValues(r) # {}
                                            THEN PatternValues(r) ELSE {"*"})),
          !.listeners = [message |-> @.message + 1, connection |-> @.connection + 1],
          !.cleanups = @ \o <<"message", "connection">>]
Start(r) ==
  IF ~r.isListening THEN r
  ELSE IF Len(r.cleanups) > 0 THEN r
  ELSE [r EXCEPT
          !.sent = Append(@, StartMessage(IF PatternValues(r) # {}
                                            THEN PatternValues(r) ELSE {"*"})),
          !.listeners = [message |-> @.message + 1, connection |-> @.connection + 1],
          !.cleanups = <<"message", "connection">>]

\* #stop(): broadcast the end message if the transport listens, run and
\* forget the cleanups.
Stop(r) ==
  LET Count(kind) == Cardinality({i \in 1..Len(r.cleanups) : r.cleanups[i] = kind})
  IN [r EXCEPT
        !.sent = IF r.isListening THEN Append(@, endMessage) ELSE @,
        !.listeners = [message |-> @.message - Count("message"),
                       connection |-> @.connection - Count("connection")],
        !.cleanups = << >>]

\* the effect body: run once, by the constructor
WatchCallbacksSizeEffect(r) ==
  IF ~r.isListening \/ Size(r) = 0 THEN Stop(r) ELSE Start(r)

\* new WebTrackerManager(server)
NewRouter(listening) ==
  WatchCallbacksSizeEffect(
    [pc |-> "ready", op |-> "new", event |-> NoEvent,
     isListening |-> listening,
     tabs |-> [t \in TabIds |-> NoTab],
     cleanups |-> << >>,
     listeners |-> [message |-> 0, connection |-> 0],
     patternsByCallback |-> << >>,
     globalTabsAndNavigationCallbacks |-> << >>,
     sent |-> << >>,
     delivered |-> << >>])

\* The router at the start of operation op: what the previous operation
\* sent and delivered is forgotten.
Begin(r, op, event) ==
  [r EXCEPT !.op = op, !.event = event, !.sent = << >>, !.delivered = << >>]

\* #tryCallback(callback, event): the handler is called; what it throws is
\* caught and logged.
TryCallback_NoCatch(callback) == IF callback \in Throwing THEN "raised" ELSE "returned"
TryCallback(callback) == IF callback \in Throwing THEN "caught" ELSE "returned"

\* #shouldSendEvent(pattern, event, cache): the decision and the cache after
\* it. A pattern that names an inherited property of the cache object is
\* found in the cache before the tab is looked at, and its value is truthy.
ShouldSendEvent(pattern, event, tabs, cache) ==
  IF pattern \in DOMAIN cache THEN [send |-> cache[pattern], cache |-> cache]
  ELSE IF pattern \in ObjectPrototypeKeys THEN [send |-> TRUE, cache |-> cache]
  ELSE LET tab == tabs[event.tabId]
           matches == /\ tab.present
                      /\ \/ VerifyPattern(pattern, tab.url)
                         \/ VerifyPattern(pattern, tab.previousUrl)
       IN [send |-> matches, cache |-> (pattern :> matches) @@ cache]

\* this.globalTabsAndNavigationCallbacks.forEach(tryCallback), from entry i
\* on: the calls made, in order.
RECURSIVE GlobalDispatch(_, _, _)
GlobalDispatch(callbacks, i, event) ==
  IF i > Len(callbacks) THEN << >>
  ELSE LET call == [callback |-> callbacks[i], type |-> event.type]
       IN IF TryCallback(callbacks[i]) = "raised"
            THEN <<call>>
            ELSE <<call>> \o GlobalDispatch(callbacks, i + 1, event)

\* this.eventCallbacks.value.forEach(...) of the default branch, from entry
\* i on: the calls made, in order.
RECURSIVE PatternDispatch(_, _, _, _, _)
PatternDispatch(entries, i, event, tabs, cache) ==
  IF i > Len(entries) THEN << >>
  ELSE LET pattern == entries[i].pattern
           call == [callback |-> entries[i].callback, type |-> event.type]
           should == ShouldSendEvent(pattern, event, tabs, cache)
       IN IF pattern = "" THEN PatternDispatch(entries, i + 1, event, tabs, cache)
          ELSE IF should.send
            THEN IF TryCallback(entries[i].callback) = "raised"
                   THEN <<call>>
                   ELSE <<call>> \o PatternDispatch(entries, i + 1, event, tabs, should.cache)
            ELSE PatternDispatch(entries, i + 1, event, tabs, should.cache)

\* Map.set(callback, pattern): an existing key keeps its place
MapSet_Append(entries, callback, pattern) ==
  Append(entries, [callback |-> callback, pattern |-> pattern])
MapSet(entries, callback, pattern) ==
  IF \E i \in 1..Len(entries) : entries[i].callback = callback
    THEN [i \in 1..Len(entries) |->
            IF entries[i].callback = callback
              THEN [callback |-> callback, pattern |-> pattern]
              ELSE entries[i]]
    ELSE Append(entries, [callback |-> callback, pattern |-> pattern])
\* Map.delete(callback)
MapDelete(entries, callback) ==
  LET Other(e) == e.callback # callback IN SelectSeq(entries, Other)
\* Set.add(callback), Set.delete(callback)
SetAdd(callbacks, callback) ==
  IF \E i \in 1..Len(callbacks) : callbacks[i] = callback
    THEN callbacks ELSE Append(callbacks, callback)
SetDelete(callbacks, callback) ==
  LET Other(c) == c # callback IN SelectSeq(callbacks, Other)

\* subscribe(pattern, callback)
Subscribe(pattern, callback) ==
  /\ router.pc = "ready"
  /\ LET r0 == Begin(router, "subscribe", NoEvent)
         r1 == [r0 EXCEPT !.patternsByCallback = MapSet(@, callback, pattern)]
         r2 == IF Len(r1.cleanups) > 0 /\ r1.isListening
                 THEN [r1 EXCEPT !.sent = Append(@, StartMessage(PatternValues(r1)))]
                 ELSE r1
     IN router' = IF r2.isListening /\ Size(r2) > 0 THEN Start(r2) ELSE r2
  /\ UNCHANGED <<recorderVars, trim, perf, dom, shutdown, fileTracker, logsManager, fileManager, logsTracker, background>>

\* subscribeToGlobalTabsAndNavigation(callback): the new subscriber is
\* called with the initial tabs.
SubscribeToGlobalTabsAndNavigation(callback) ==
  /\ router.pc = "ready"
  /\ LET r0 == Begin(router, "subscribeToGlobalTabsAndNavigation", NoEvent)
         r1 == [r0 EXCEPT
                  !.globalTabsAndNavigationCallbacks = SetAdd(@, callback),
                  !.delivered = <<[callback |-> callback, type |-> "INITIAL_TABS"]>>]
     IN router' = IF r1.isListening /\ Size(r1) > 0 THEN Start(r1) ELSE r1
  /\ UNCHANGED <<recorderVars, trim, perf, dom, shutdown, fileTracker, logsManager, fileManager, logsTracker, background>>

\* unsubscribe(callback)
Unsubscribe(callback) ==
  /\ router.pc = "ready"
  /\ router' = [Begin(router, "unsubscribe", NoEvent) EXCEPT
                  !.patternsByCallback = MapDelete(@, callback)]
  /\ UNCHANGED <<recorderVars, trim, perf, dom, shutdown, fileTracker, logsManager, fileManager, logsTracker, background>>

\* unsubscribeFromGlobalTabsAndNavigation(callback)
UnsubscribeFromGlobalTabsAndNavigation(callback) ==
  /\ router.pc = "ready"
  /\ router' = [Begin(router, "unsubscribeFromGlobalTabsAndNavigation", NoEvent) EXCEPT
                  !.globalTabsAndNavigationCallbacks = SetDelete(@, callback)]
  /\ UNCHANGED <<recorderVars, trim, perf, dom, shutdown, fileTracker, logsManager, fileManager, logsTracker, background>>

\* destroy()
Destroy ==
  /\ router.pc = "ready"
  /\ router' = [Stop(Begin(router, "destroy", NoEvent)) EXCEPT
                  !.patternsByCallback = << >>,
                  !.globalTabsAndNavigationCallbacks = << >>]
  /\ UNCHANGED <<recorderVars, trim, perf, dom, shutdown, fileTracker, logsManager, fileManager, logsTracker, background>>

\* #handleEvent(event), called by the message listener for a transport message
HandleEvent(event) ==
  /\ router.pc = "ready"
  /\ router.listeners.message > 0
  /\ LET r0 == Begin(router, "handleEvent", event)
         tabs == UpdateTabsState(event, r0.tabs)
     IN router' = [r0 EXCEPT
          !.tabs = tabs,
          !.delivered =
             IF event.type \in NavigationTypes
               THEN GlobalDispatch(r0.globalTabsAndNavigationCallbacks, 1, event)
               ELSE PatternDispatch(r0.patternsByCallback, 1, event, tabs, << >>)]
  /\ UNCHANGED <<recorderVars, trim, perf, dom, shutdown, fileTracker, logsManager, fileManager, logsTracker, background>>

\* the connection listener: a new client is sent the current patterns
Connection ==
  /\ router.pc = "ready"
  /\ router.listeners.connection > 0
  /\ router' = [Begin(router, "connection", NoEvent) EXCEPT
       !.sent = <<StartMessage(IF PatternValues(router) # {}
                                 THEN PatternValues(router) ELSE {"*"})>>]
  /\ UNCHANGED <<recorderVars, trim, perf, dom, shutdown, fileTracker, logsManager, fileManager, logsTracker, background>>

InitRouter ==
  /\ RecorderInit
  /\ background = NoBackground
  /\ logsTracker = NoLogsTracker
  /\ fileManager = NoFileManager
  /\ logsManager = NoLogsManager
  /\ fileTracker = NoFileTracker
  /\ trim = NoTrim
  /\ perf = NoPerf
  /\ dom = NoDom
  /\ shutdown = NoShutdown
  /\ \E listening \in BOOLEAN : router = NewRouter(listening)

NextRouter ==
  \/ \E pattern \in Patterns, callback \in Callbacks : Subscribe(pattern, callback)
  \/ \E callback \in Callbacks : SubscribeToGlobalTabsAndNavigation(callback)
  \/ \E callback \in Callbacks : Unsubscribe(callback)
  \/ \E callback \in Callbacks : UnsubscribeFromGlobalTabsAndNavigation(callback)
  \/ Destroy
  \/ \E event \in Events : HandleEvent(event)
  \/ Connection

SpecRouter == InitRouter /\ [][NextRouter]_vars

\* ---------------------------------------------------------------------
\* properties of the router
\* ---------------------------------------------------------------------
\* This step is #handleEvent(event).
HandleStep(event) == router'.op = "handleEvent" /\ router'.event = event
\* The number of calls of a handler in the last operation.
Calls(r, callback) ==
  Cardinality({k \in 1..Len(r.delivered) : r.delivered[k].callback = callback})
\* The tab of the event exists and the pattern matches its url or previousUrl.
TabMatches(pattern, event, tabs) ==
  /\ tabs[event.tabId].present
  /\ \/ VerifyPattern(pattern, tabs[event.tabId].url)
     \/ VerifyPattern(pattern, tabs[event.tabId].previousUrl)

\* C17: a non-navigation event is delivered to a pattern subscription if
\* and only if the event's tab is in the tab map and the pattern matches the
\* tab's url or its previousUrl.
C17_DeliveredIffTabMatches ==
  [][\A event \in Events :
       (event.type \in OtherTypes /\ HandleStep(event)) =>
         \A i \in 1..Len(router.patternsByCallback) :
           LET entry == router.patternsByCallback[i]
           IN (Calls(router', entry.callback) > 0)
                <=> TabMatches(entry.pattern, event, router'.tabs)]_vars

\* C18: a tab or navigation event is delivered exactly once to every
\* registered global subscriber, whatever the tabs and the patterns are, also
\* when the handler of an earlier global subscriber throws.
C18_GlobalSubscribersGetNavigation ==
  [][\A event \in Events :
       (event.type \in NavigationTypes /\ HandleStep(event)) =>
         \A i \in 1..Len(router.globalTabsAndNavigationCallbacks) :
           /\ Calls(router', router.globalTabsAndNavigationCallbacks[i]) = 1
           /\ \A k \in 1..Len(router'.delivered) :
                router'.delivered[k].type = event.type]_vars

\* A tab event for a tab that is not in the tab map was handled with two
\* global subscribers, the first of which throws, and a pattern subscriber.
C18_Witness ==
  /\ router.pc = "ready"
  /\ router.op = "handleEvent"
  /\ router.event.type = "TAB_ACTIVATED"
  /\ ~router.tabs[router.event.tabId].present
  /\ router.globalTabsAndNavigationCallbacks = <<"h2", "h1">>
  /\ "h2" \in Throwing
  /\ Len(router.patternsByCallback) > 0
  /\ Calls(router, "h2") = 1 /\ Calls(router, "h1") = 1

\* The router's transport listeners are attached.
Active(r) == r.listeners.message > 0 /\ r.listeners.connection > 0

\* C19: after every subscribe, subscribeToGlobalTabsAndNavigation,
\* unsubscribe, unsubscribeFromGlobalTabsAndNavigation and destroy, the
\* router is active if and only if it has at least one subscriber and the
\* transport is listening.
C19_ActiveIffSubscribed ==
  router.pc = "ready" =>
    (router.op \in {"subscribe", "subscribeToGlobalTabsAndNavigation", "unsubscribe",
                    "unsubscribeFromGlobalTabsAndNavigation", "destroy"} =>
       (Active(router) <=> (Size(router) > 0 /\ router.isListening)))

\* ---------------------------------------------------------------------
\* PerformanceTracker (src/lib/performanceTracker.js)
\* ---------------------------------------------------------------------
MaxTicks == 3                \* collectSample() calls in one behaviour
\* readings of a cumulative network byte counter; time is counted in seconds
Counters == {1, 2}
TotalMem == 8
NoStats == [set |-> FALSE, bytesReceived |-> 0, timestamp |-> 0]

\* what the three probes of one tick meet
SystemOutcomes == {"ok", "throws"}
ProcessOutcomes == {"ok", "throws"}
NetworkOutcomes ==
  {[k |-> "interfacesThrow", v |-> 0], [k |-> "readThrows", v |-> 0]}
    \cup {[k |-> "counter", v |-> c] : c \in Counters}
NoOutcome == [k |-> "none", v |-> 0]

\* getSystemMetrics(): no failure is caught here
GetSystemMetrics(outcome) ==
  IF outcome = "ok"
    THEN [rejected |-> FALSE, totalMemory |-> TotalMem, usedMemory |-> TotalMem - 1]
    ELSE [rejected |-> TRUE, totalMemory |-> 0, usedMemory |-> 0]

\* getProcessMetrics(): a failure of pidusage gives cpu 0 and memory 0
GetProcessMetrics(outcome) ==
  IF outcome = "ok" THEN [cpu |-> 1, memory |-> 1] ELSE [cpu |-> 0, memory |-> 0]

\* getNetworkMetrics(): the metrics and this.lastNetworkStats after the probe.
\* A failed read of the counters leaves the totals at 0 and goes on to the
\* rate computation; a failure outside the read returns zeros and leaves
\* lastNetworkStats alone. bytesSent is treated like bytesReceived.
GetNetworkMetrics(last, outcome, now) ==
  IF outcome.k = "interfacesThrow"
    THEN [network |-> [bytesReceived |-> 0, bytesReceivedPerSec |-> 0], last |-> last]
    ELSE LET totalBytesReceived == IF outcome.k = "readThrows" THEN 0 ELSE outcome.v
             timeDelta == now - last.timestamp
             bytesReceivedPerSec ==
               IF last.set /\ timeDelta > 0
                 THEN (totalBytesReceived - last.bytesReceived) \div timeDelta
                 ELSE 0
         IN [network |-> [bytesReceived |-> totalBytesReceived,
                          bytesReceivedPerSec |-> bytesReceivedPerSec],
             last |-> [set |-> TRUE, bytesReceived |-> totalBytesReceived,
                       timestamp |-> now]]

\* new PerformanceTracker()
NewTracker ==
  [pc |-> "ready", interval |-> FALSE, samples |-> << >>, startTime |-> NULL,
   lastNetworkStats |-> NoStats, performanceFile |-> FALSE, outputDir |-> FALSE,
   fileExists |-> FALSE, fileLines |-> << >>,
   now |-> 1, ticks |-> 0, pending |-> << >>,
   tick |-> [system |-> "none", process |-> "none", network |-> NoOutcome,
             recorded |-> FALSE],
   result |-> [returned |-> FALSE, samples |-> << >>, summary |-> FALSE]]

\* collectSample() up to its await: the timestamp is taken and the three
\* probes are started. The system and network probes finish without waiting
\* for the host; a rejected system probe rejects Promise.all, and the catch
\* of collectSample ends the tick without a sample. Otherwise the tick waits
\* for pidusage.
CollectBegin(p, system, network) ==
  LET timestamp == p.now
      elapsedMs == IF p.startTime # NULL THEN timestamp - p.startTime ELSE 0
      systemMetrics == GetSystemMetrics(system)
      networkMetrics == GetNetworkMetrics(p.lastNetworkStats, network, p.now)
      started == [p EXCEPT !.now = @ + 1, !.ticks = @ + 1,
                           !.lastNetworkStats = networkMetrics.last,
                           !.tick = [system |-> system, process |-> "none",
                                     network |-> network, recorded |-> FALSE]]
  IN IF systemMetrics.rejected THEN started
     ELSE [started EXCEPT !.pending = Append(@,
             [timestamp |-> timestamp, elapsedMs |-> elapsedMs,
              system |-> systemMetrics, network |-> networkMetrics.network,
              systemOutcome |-> system, networkOutcome |-> network])]

\* Values a network counter can show after the last reading: it never
\* decreases.
NextNetworkOutcomes(p) ==
  {o \in NetworkOutcomes :
     o.k = "counter" =>
       (p.lastNetworkStats.set => o.v >= p.lastNetworkStats.bytesReceived)}

\* start(outputDir)
TrackerStart(outputDir, system, network) ==
  /\ perf.pc = "ready"
  /\ perf.ticks < MaxTicks
  /\ IF perf.interval THEN UNCHANGED perf
     ELSE LET p1 == [perf EXCEPT !.startTime = perf.now, !.samples = << >>,
                                 !.outputDir = outputDir]
              p2 == IF outputDir
                      THEN [p1 EXCEPT !.performanceFile = TRUE,
                                      !.fileExists = FALSE, !.fileLines = << >>]
                      ELSE p1
          IN perf' = [CollectBegin(p2, system, network) EXCEPT !.interval = TRUE]
  /\ UNCHANGED <<recorderVars, trim, router, dom, shutdown, fileTracker, logsManager, fileManager, logsTracker, background>>

\* the setInterval callback
IntervalTick(system, network) ==
  /\ perf.pc = "ready"
  /\ perf.interval
  /\ perf.ticks < MaxTicks
  /\ perf' = CollectBegin(perf, system, network)
  /\ UNCHANGED <<recorderVars, trim, router, dom, shutdown, fileTracker, logsManager, fileManager, logsTracker, background>>

\* if (this.performanceFile): the sample is also written to the file
AppendsToFile_Never(p) == FALSE
AppendsToFile(p) == p.performanceFile

\* fs.appendFileSync(this.performanceFile, JSON.stringify(sample) + '\n')
FileAppend_Front(lines, sample) == <<sample>> \o lines
FileAppend(lines, sample) == Append(lines, sample)

\* collectSample() after its await, for the pending tick k: pidusage has
\* settled; the sample is pushed and, with a performance file, appended.
ProbesSettle(k, process) ==
  /\ perf.pc = "ready"
  /\ k \in 1..Len(perf.pending)
  /\ LET t == perf.pending[k]
         sample == [timestamp |-> t.timestamp, elapsedMs |-> t.elapsedMs,
                    system |-> t.system, process |-> GetProcessMetrics(process),
                    network |-> t.network]
         Rest(i) == IF i < k THEN perf.pending[i] ELSE perf.pending[i + 1]
     IN perf' = [perf EXCEPT
          !.pending = [i \in 1..(Len(perf.pending) - 1) |-> Rest(i)],
          !.samples = Append(@, sample),
          !.fileExists = IF AppendsToFile(perf) THEN TRUE ELSE @,
          !.fileLines = IF AppendsToFile(perf) THEN FileAppend(@, sample) ELSE @,
          !.tick = [system |-> t.systemOutcome, process |-> process,
                    network |-> t.networkOutcome, recorded |-> TRUE]]
  /\ UNCHANGED <<recorderVars, trim, router, dom, shutdown, fileTracker, logsManager, fileManager, logsTracker, background>>

\* stop()
TrackerStop ==
  /\ perf.pc = "ready"
  /\ LET samples == IF perf.performanceFile /\ perf.fileExists
                      THEN perf.fileLines ELSE perf.samples
     IN perf' =
          IF Len(samples) = 0
            THEN [perf EXCEPT !.interval = FALSE, !.samples = samples,
                    !.result = [returned |-> TRUE, samples |-> << >>, summary |-> FALSE]]
            ELSE [perf EXCEPT !.interval = FALSE,
                    !.result = [returned |-> TRUE, samples |-> samples, summary |-> TRUE],
                    !.fileExists = IF perf.performanceFile THEN FALSE ELSE @,
                    !.fileLines = IF perf.performanceFile THEN << >> ELSE @,
                    !.samples = << >>, !.startTime = NULL,
                    !.performanceFile = FALSE]
  /\ UNCHANGED <<recorderVars, trim, router, dom, shutdown, fileTracker, logsManager, fileManager, logsTracker, background>>

InitPerf ==
  /\ RecorderInit
  /\ background = NoBackground
  /\ logsTracker = NoLogsTracker
  /\ fileManager = NoFileManager
  /\ logsManager = NoLogsManager
  /\ fileTracker = NoFileTracker
  /\ trim = NoTrim
  /\ router = NoRouter
  /\ perf = NewTracker
  /\ dom = NoDom
  /\ shutdown = NoShutdown

NextPerf ==
  \/ \E outputDir \in BOOLEAN, system \in SystemOutcomes,
        network \in NextNetworkOutcomes(perf) :
       TrackerStart(outputDir, system, network)
  \/ \E system \in SystemOutcomes, network \in NextNetworkOutcomes(perf) :
       IntervalTick(system, network)
  \/ \E k \in 1..MaxTicks, process \in ProcessOutcomes : ProbesSettle(k, process)
  \/ TrackerStop

SpecPerf == InitPerf /\ [][NextPerf]_vars

\* ---------------------------------------------------------------------
\* properties of the performance tracker
\* ---------------------------------------------------------------------
\* This step is a collectSample() call reaching its await or its catch.
TickBegins == perf'.ticks = perf.ticks + 1
\* This step is a collectSample() call recording its sample.
TickRecords == Len(perf'.pending) = Len(perf.pending) - 1
\* The sample has zeros for a failed probe and the reading for a probe that
\* worked.
SampleReflects(sample, tick) ==
  /\ IF tick.process = "throws"
       THEN sample.process.cpu = 0 /\ sample.process.memory = 0
       ELSE sample.process.cpu > 0 /\ sample.process.memory > 0
  /\ IF tick.network.k = "counter"
       THEN sample.network.bytesReceived = tick.network.v
       ELSE sample.network.bytesReceived = 0 /\ sample.network.bytesReceivedPerSec = 0
  /\ IF tick.system = "throws"
       THEN sample.system.totalMemory = 0
       ELSE sample.system.totalMemory > 0

\* C20: whichever of the three probes fails in a tick, the tick goes on to
\* record a sample, with zeros for the failed probe and the readings of the
\* others; later ticks keep running.
C20_ProbeFailuresIsolated ==
  [][/\ TickBegins =>
          /\ Len(perf'.pending) = Len(perf.pending) + 1
          /\ perf.interval => perf'.interval
     /\ TickRecords =>
          /\ perf'.interval = perf.interval
          /\ Len(perf'.samples) = Len(perf.samples) + 1
          /\ SampleReflects(perf'.samples[Len(perf'.samples)], perf'.tick)]_vars

\* C21: at most one collectSample() call is in progress at any time: the
\* initial tick of start() and a tick that outlasts the interval never
\* overlap with the next interval tick.
C21_NoOverlappingTicks == perf.pc = "ready" => Len(perf.pending) <= 1

\* The tick was started by start(): it is the first of its session.
FirstOfSession(t) == t.elapsedMs = 0

\* C22: in every start() ... stop() cycle the first sample reports a zero
\* network rate, and each later sample's rate is the counter difference to
\* the previous sample of the session divided by the seconds between them.
C22_RatesPerSession ==
  perf.pc = "ready" =>
    /\ \A k \in 1..Len(perf.pending) :
         FirstOfSession(perf.pending[k]) =>
           perf.pending[k].network.bytesReceivedPerSec = 0
    /\ \A k \in 1..Len(perf.samples) :
         FirstOfSession(perf.samples[k]) =>
           perf.samples[k].network.bytesReceivedPerSec = 0
    /\ \A k \in 2..Len(perf.samples) :
         (~FirstOfSession(perf.samples[k])
            /\ perf.samples[k].timestamp > perf.samples[k - 1].timestamp) =>
           perf.samples[k].network.bytesReceivedPerSec =
             (perf.samples[k].network.bytesReceived
                - perf.samples[k - 1].network.bytesReceived)
               \div (perf.samples[k].timestamp - perf.samples[k - 1].timestamp)

\* This step is stop() ending a session that start() began with an output
\* directory.
StopsFileSession == TrackerStop /\ perf.interval /\ perf.outputDir

C25_StatusTracksSession ==
  [][/\ (~getRecordingStatus.isRecording /\ getRecordingStatus'.isRecording) =>
          StartStep
     /\ (StartStep /\ currentRecording = NULL /\ currentRecording' # NULL) =>
          getRecordingStatus'.isRecording
     /\ (getRecordingStatus.isRecording /\ ~getRecordingStatus'.isRecording) =>
          \E f \in Frames : Completes(f) /\ frames[f].awaited = currentRecording
     /\ ~getRecordingStatus'.isRecording => getRecordingStatus'.outputPath = NoPath]_vars

\* ---------------------------------------------------------------------
\* further properties of the router
\* ---------------------------------------------------------------------
\* This step is a subscribe() or subscribeToGlobalTabsAndNavigation() on a
\* router whose transport listeners are attached.
RedundantActivation ==
  /\ Active(router)
  /\ router'.op \in {"subscribe", "subscribeToGlobalTabsAndNavigation"}

\* C28: whatever subscribe, subscribeToGlobalTabsAndNavigation, unsubscribe
\* and destroy calls were made, the router has at most one message listener
\* and at most one connection listener on the transport and keeps exactly one
\* cleanup for each of them, so a transport message is handled at most once;
\* activating an active router attaches nothing.
C28_AtMostOneListener ==
  /\ [](/\ router.pc = "ready" => router.listeners.message \in {0, 1}
        /\ router.pc = "ready" => router.listeners.connection \in {0, 1}
        /\ router.pc = "ready" =>
             Len(router.cleanups) = router.listeners.message + router.listeners.connection)
  /\ [][RedundantActivation => router'.listeners = router.listeners]_vars

\* A third subscriber was added to a router that was active already.
C28_Witness ==
  /\ router.pc = "ready"
  /\ router.op = "subscribe"
  /\ Len(router.patternsByCallback) = 2
  /\ Len(router.globalTabsAndNavigationCallbacks) = 1
  /\ router.listeners = [message |-> 1, connection |-> 1]

\* The patterns a handler is subscribed with: one per entry of the map.
PatternsOf(r, callback) ==
  {i \in 1..Len(r.patternsByCallback) : r.patternsByCallback[i].callback = callback}

SourceTime(event, now) == ParseInt(Or(Or(event.time, event.timestamp), Num(now)))

\* C30: the relative time of an event is its time minus startMS, and if that
\* difference is strictly greater than the threshold it is reduced by
\* clientStartDate, once; a difference equal to the threshold is kept as it
\* is.  The window [0, endMS - startMS] is applied to the relative times.
C30_RelativeTimeThreshold ==
  [][TrimStep => \A i \in Sources : Processed(trim, i) =>
       LET events == ParsedLines(trim.content[i])
           relative == trim'.relativeEvents[i]
           duration == trim.endMS - trim.startMS
           InDurationOf(e) == (e.time.k = "num" /\ 0 <= e.time.v /\ e.time.v <= duration)
           kept == SelectSeq(relative, InDurationOf)
       IN /\ Len(relative) = Len(events)
          /\ \A j \in 1..Len(events) :
               LET eventTime == SourceTime(events[j], trim.now)
                   difference == eventTime.v - trim.startMS
               IN /\ relative[j].n = events[j].n
                  /\ eventTime.k # "num" => relative[j].time.k = "nan"
                  /\ (eventTime.k = "num" /\ difference <= Threshold) =>
                       relative[j].time = Num(difference)
                  /\ (eventTime.k = "num" /\ difference > Threshold) =>
                       relative[j].time = Num(difference - trim.clientStartDate)
          /\ Len(trim'.artifacts[i]) = Len(kept)
          /\ \A p \in 1..Len(kept) :
               /\ trim'.artifacts[i][p].n = kept[p].n
               /\ trim'.artifacts[i][p].time = kept[p].time]_vars

\* A file had an event whose difference to startMS is the threshold itself,
\* left as it is, and an event with an absolute time, reduced by
\* clientStartDate and written.
C30_Witness ==
  /\ trim.pc = "done"
  /\ \E i \in Sources :
       /\ Len(trim.relativeEvents[i]) = 2
       /\ \E j, k \in 1..2 :
            /\ trim.content[i][trim.relativeEvents[i][j].n].time = Num(Threshold + 1)
            /\ trim.relativeEvents[i][j].time = Num(Threshold)
            /\ trim.content[i][trim.relativeEvents[i][k].n].time = Num(Epoch)
            /\ trim.relativeEvents[i][k].time = Num(Epoch - 1 - trim.clientStartDate)
       /\ Len(trim.artifacts[i]) = 0

\* ============================================================== getPageDOM
\* WebTrackerManager.getPageDOM() of src/lib/tracking.js: every call makes a
\* promise, a 30-second timeout and a message listener of its own.  A call,
\* an incoming transport message and a timeout expiry each run to completion.
MaxRequests == 3            \* getPageDOM() calls, possibly outstanding together
Requests == 1..MaxRequests
\* `getdom_${Date.now()}_${Math.random()...}`: two calls may draw the same id
RequestIds == 1..2
NoRequestId == 0            \* a message without requestId field
\* incoming transport messages: {type, requestId?, result | error}
Messages ==
  [type : {"DOM_RESULT", "NETWORK_REQUEST"},
   requestId : RequestIds \cup {NoRequestId},
   error : BOOLEAN]

\* A getPageDOM() call: the state of its promise, what settled it, the
\* number of resolve/reject calls made on it, its requestId, whether its
\* timeout is scheduled and whether its responseHandler is attached.
NoRequest ==
  [st |-> "none", by |-> "none", calls |-> 0, requestId |-> NoRequestId,
   timeout |-> FALSE, listener |-> FALSE]

\* resolve(...) / reject(...): only the first call settles a promise
Settle(req, outcome, by) ==
  IF req.st = "pending"
    THEN [req EXCEPT !.st = outcome, !.by = by, !.calls = @ + 1]
    ELSE [req EXCEPT !.calls = @ + 1]

\* event.type === 'DOM_RESULT' && event.requestId === requestId
IsResponse_AnyRequest(event, requestId) == event.type = "DOM_RESULT"
IsResponse(event, requestId) ==
  event.type = "DOM_RESULT" /\ event.requestId = requestId

\* responseHandler(event): clearTimeout(timeout); cleanup(); reject or resolve
ResponseHandler(req, event) ==
  IF IsResponse(event, req.requestId)
    THEN Settle([req EXCEPT !.timeout = FALSE, !.listener = FALSE],
                IF event.error THEN "rejected" ELSE "resolved", "response")
    ELSE req

\* the timeout callback: cleanup(); reject(new Error('Script execution timed out'))
TimeoutCallback(req) ==
  Settle([req EXCEPT !.timeout = FALSE, !.listener = FALSE], "rejected", "timeout")

\* the next getPageDOM() call
NextRequest ==
  IF \E r \in Requests : dom.requests[r].st = "none"
    THEN CHOOSE r \in Requests :
           dom.requests[r].st = "none" /\ \A q \in Requests : q < r => dom.requests[q].st # "none"
    ELSE 0

\* getPageDOM(): rejected at once if the transport is not listening; else
\* the timeout is set, the responseHandler attached and the request broadcast
GetPageDOM(requestId) ==
  /\ dom.pc = "ready"
  /\ NextRequest # 0
  /\ LET promise == [NoRequest EXCEPT !.st = "pending"]
     IN dom' = [dom EXCEPT !.requests[NextRequest] =
          IF ~dom.isListening
            THEN Settle(promise, "rejected", "notListening")
            ELSE [promise EXCEPT !.requestId = requestId,
                                 !.timeout = TRUE, !.listener = TRUE]]
  /\ UNCHANGED <<recorderVars, trim, router, perf, shutdown, fileTracker, logsManager, fileManager, logsTracker, background>>

\* A transport message arrives: the server calls every attached
\* responseHandler with it.
Message(event) ==
  /\ dom.pc = "ready"
  /\ dom' = [dom EXCEPT !.requests = [r \in Requests |->
       IF dom.requests[r].listener
         THEN ResponseHandler(dom.requests[r], event)
         ELSE dom.requests[r]]]
  /\ UNCHANGED <<recorderVars, trim, router, perf, shutdown, fileTracker, logsManager, fileManager, logsTracker, background>>

\* The 30-second timeout of request r expires.
Timeout(r) ==
  /\ dom.pc = "ready"
  /\ dom.requests[r].timeout
  /\ dom' = [dom EXCEPT !.requests[r] = TimeoutCallback(@)]
  /\ UNCHANGED <<recorderVars, trim, router, perf, shutdown, fileTracker, logsManager, fileManager, logsTracker, background>>

InitDom ==
  /\ RecorderInit
  /\ background = NoBackground
  /\ logsTracker = NoLogsTracker
  /\ fileManager = NoFileManager
  /\ logsManager = NoLogsManager
  /\ fileTracker = NoFileTracker
  /\ trim = NoTrim
  /\ router = NoRouter
  /\ perf = NoPerf
  /\ shutdown = NoShutdown
  /\ \E listening \in BOOLEAN :
       dom = [pc |-> "ready", isListening |-> listening,
              requests |-> [r \in Requests |-> NoRequest]]

NextDom ==
  \/ \E requestId \in RequestIds : GetPageDOM(requestId)
  \/ \E event \in Messages : Message(event)
  \/ \E r \in Requests : Timeout(r)

SpecDom == InitDom /\ [][NextDom]_vars

\* ------------------------------------------------ properties of getPageDOM
\* The promise of a request is settled.
Settled(req) == req.st \in {"resolved", "rejected"}

\* C27: with any number of outstanding getPageDOM() requests, in any order of
\* messages and timeout expiries, a request is settled once: by the first
\* DOM_RESULT message that carries its requestId (rejected if the message has
\* an error, resolved otherwise) or by its own timeout, whichever comes
\* first.  A message of another type or with another requestId and the
\* timeout of another request leave it as it is, and nothing touches a
\* settled request again.
C27_SettledOnceByOwnResponseOrTimeout ==
  [][\A r \in Requests :
       LET before == dom.requests[r]
           after == dom'.requests[r]
       IN /\ Settled(before) => after = before
          /\ after.calls <= 1
          /\ (before.st = "pending" /\ Settled(after)) =>
               \/ /\ Timeout(r)
                  /\ after.st = "rejected" /\ after.by = "timeout"
               \/ \E event \in Messages :
                    /\ Message(event)
                    /\ event.type = "DOM_RESULT"
                    /\ event.requestId = before.requestId
                    /\ after.st = IF event.error THEN "rejected" ELSE "resolved"
                    /\ after.by = "response"
          /\ \A event \in Messages :
               (Message(event) /\ before.st = "pending") =>
                 IF event.type = "DOM_RESULT" /\ event.requestId = before.requestId
                   THEN Settled(after)
                   ELSE after = before
          /\ \A q \in Requests \ {r} : Timeout(q) => after = before]_vars

\* Two requests had the same requestId: one timed out, and the response
\* that came later resolved the other one only; a third is outstanding.
C27_Witness ==
  /\ dom.pc = "ready"
  /\ dom.requests[1].st = "rejected" /\ dom.requests[1].by = "timeout"
  /\ dom.requests[2].st = "resolved" /\ dom.requests[2].by = "response"
  /\ dom.requests[1].requestId = dom.requests[2].requestId
  /\ dom.requests[3].st = "pending"

\* ================================================= shutdown signalling
\* startRecording() and stopRecording() of src/lib/recorder.js once more,
\* reduced to what decides which capture process is sent which signal: the
\* module variable currentRecording, the capture processes and, for every
\* stopRecording() call, its position and its two escalation timeouts.  The
\* files, the log trackers and the finalization attempts are left out: the
\* temporary file is empty or not, and the attempts take some time and end.
\* Three sessions and three stopRecording() calls fit into this part.
MaxCaptures == 3            \* capture processes spawned by startRecording()
MaxStopCalls == 3           \* stopRecording() calls, possibly concurrent
Captures == 1..MaxCaptures
StopCalls == 1..MaxStopCalls
IdleCall == [pc |-> "idle", awaited |-> NULL, timers |-> "none"]
DoneCall == [pc |-> "done", awaited |-> NULL, timers |-> "none"]

\* currentRecording.stdin.write('q') and process.kill(currentRecording.pid,
\* sig): what is sent goes to the process the module variable names when the
\* line runs; a process that has exited receives nothing.
SendTo(s, sig) ==
  IF s.currentRecording # NULL /\ s.proc[s.currentRecording].st = "running"
    THEN [s EXCEPT !.proc[s.currentRecording].sigs = @ \cup {sig}]
    ELSE s

\* startRecording(): rejected while currentRecording is set; the process is
\* spawned and, if the recorder id cannot be generated, the catch block
\* clears currentRecording again.
SpawnCapture(ok) ==
  /\ shutdown.pc = "ready"
  /\ shutdown.currentRecording = NULL
  /\ \E p \in Captures :
       /\ shutdown.proc[p].st = "none"
       /\ \A q \in Captures : q < p => shutdown.proc[q].st # "none"
       /\ shutdown' = [shutdown EXCEPT
            !.proc[p] = [st |-> "running", sigs |-> {}],
            !.currentRecording = IF ok THEN p ELSE NULL]
  /\ UNCHANGED <<recorderVars, trim, router, perf, dom, fileTracker, logsManager, fileManager, logsTracker, background>>

\* The capture process p exits: every stopRecording() call that awaits it
\* resumes and clears its two timeouts before anything else runs.
CaptureExits(p) ==
  /\ shutdown.pc = "ready"
  /\ shutdown.proc[p].st = "running"
  /\ shutdown' = [shutdown EXCEPT
       !.proc[p] = [st |-> "exited", sigs |-> {}],
       !.calls = [f \in StopCalls |->
          IF shutdown.calls[f].pc = "awaitExit" /\ shutdown.calls[f].awaited = p
            THEN [shutdown.calls[f] EXCEPT !.pc = "syncWait", !.timers = "none"]
            ELSE shutdown.calls[f]]]
  /\ UNCHANGED <<recorderVars, trim, router, perf, dom, fileTracker, logsManager, fileManager, logsTracker, background>>

\* stopRecording() up to `await currentRecording`
BeginStop(f) ==
  /\ shutdown.pc = "ready"
  /\ shutdown.calls[f].pc = "idle"
  /\ \A g \in StopCalls : g < f => shutdown.calls[g].pc # "idle"
  /\ LET cur == shutdown.currentRecording
     IN IF cur = NULL
          THEN \* throw new Error('No recording in progress')
               shutdown' = [shutdown EXCEPT !.calls[f] = DoneCall]
          ELSE shutdown' = [SendTo(shutdown, "q") EXCEPT !.calls[f] =
                 IF shutdown.proc[cur].st = "running"
                   THEN [pc |-> "awaitExit", awaited |-> cur, timers |-> "both"]
                   ELSE [pc |-> "syncWait", awaited |-> cur, timers |-> "none"]]
  /\ UNCHANGED <<recorderVars, trim, router, perf, dom, fileTracker, logsManager, fileManager, logsTracker, background>>

\* gracefulTimeout, 2000 ms after the quit command
GracefulTimeoutFires(f) ==
  /\ shutdown.pc = "ready"
  /\ shutdown.calls[f].pc = "awaitExit"
  /\ shutdown.calls[f].timers = "both"
  /\ shutdown' = [SendTo(shutdown, "SIGTERM") EXCEPT !.calls[f].timers = "hardKill"]
  /\ UNCHANGED <<recorderVars, trim, router, perf, dom, fileTracker, logsManager, fileManager, logsTracker, background>>

\* hardKillTimeout, 5000 ms after the quit command
HardKillTimeoutFires(f) ==
  /\ shutdown.pc = "ready"
  /\ shutdown.calls[f].pc = "awaitExit"
  /\ shutdown.calls[f].timers = "hardKill"
  /\ shutdown' = [SendTo(shutdown, "SIGKILL") EXCEPT !.calls[f].timers = "none"]
  /\ UNCHANGED <<recorderVars, trim, router, perf, dom, fileTracker, logsManager, fileManager, logsTracker, background>>

\* After the 1000 ms wait: currentRecording.spawnargs of null and an empty
\* or missing temporary file throw, and the catch block clears
\* currentRecording; else the finalization attempts begin.
WaitElapsed(f, empty) ==
  /\ shutdown.pc = "ready"
  /\ shutdown.calls[f].pc = "syncWait"
  /\ shutdown' =
       IF shutdown.currentRecording = NULL \/ empty
         THEN [shutdown EXCEPT !.currentRecording = NULL, !.calls[f] = DoneCall]
         ELSE [shutdown EXCEPT !.calls[f].pc = "finalizing"]
  /\ UNCHANGED <<recorderVars, trim, router, perf, dom, fileTracker, logsManager, fileManager, logsTracker, background>>

\* stopRecording() returns its result or throws out of the attempts: either
\* way currentRecording = null
StopEnds(f) ==
  /\ shutdown.pc = "ready"
  /\ shutdown.calls[f].pc = "finalizing"
  /\ shutdown' = [shutdown EXCEPT !.currentRecording = NULL, !.calls[f] = DoneCall]
  /\ UNCHANGED <<recorderVars, trim, router, perf, dom, fileTracker, logsManager, fileManager, logsTracker, background>>

InitShutdown ==
  /\ RecorderInit
  /\ background = NoBackground
  /\ logsTracker = NoLogsTracker
  /\ fileManager = NoFileManager
  /\ logsManager = NoLogsManager
  /\ fileTracker = NoFileTracker
  /\ trim = NoTrim
  /\ router = NoRouter
  /\ perf = NoPerf
  /\ dom = NoDom
  /\ shutdown = [pc |-> "ready", currentRecording |-> NULL,
                 proc |-> [p \in Captures |-> [st |-> "none", sigs |-> {}]],
                 calls |-> [f \in StopCalls |-> IdleCall]]

NextShutdown ==
  \/ \E ok \in BOOLEAN : SpawnCapture(ok)
  \/ \E p \in Captures : CaptureExits(p)
  \/ \E f \in StopCalls : BeginStop(f)
  \/ \E f \in StopCalls : GracefulTimeoutFires(f)
  \/ \E f \in StopCalls : HardKillTimeoutFires(f)
  \/ \E f \in StopCalls, empty \in BOOLEAN : WaitElapsed(f, empty)
  \/ \E f \in StopCalls : StopEnds(f)

SpecShutdown == InitShutdown /\ [][NextShutdown]_vars

\* --------------------------------------- properties of shutdown signalling
\* The capture process p receives sig in this step.
Receives(p, sig) == sig \notin shutdown.proc[p].sigs /\ sig \in shutdown'.proc[p].sigs

\* One of the two escalation timeouts of the stopRecording() call f fires in
\* this step.
TimeoutFires(f) ==
  /\ shutdown.calls[f].pc = "awaitExit"
  /\ shutdown'.calls[f].pc = "awaitExit"
  /\ shutdown.calls[f].timers # shutdown'.calls[f].timers

\* C26: the shutdown of a capture process escalates in order: the quit
\* command first, SIGTERM only to a process that was sent the quit command
\* and is still running when the 2-second timeout of its stopRecording() call
\* fires, SIGKILL only to a process that was sent SIGTERM and is still running
\* when the 5-second timeout fires; a process that has exited receives
\* nothing.
C26_SignalsEscalateInOrder ==
  [][/\ \A p \in Captures :
          /\ Receives(p, "SIGTERM") =>
               /\ shutdown.proc[p].st = "running"
               /\ "q" \in shutdown.proc[p].sigs
               /\ \E f \in StopCalls :
                    /\ TimeoutFires(f)
                    /\ shutdown.calls[f].awaited = p
                    /\ shutdown.calls[f].timers = "both"
          /\ Receives(p, "SIGKILL") =>
               /\ shutdown.proc[p].st = "running"
               /\ "SIGTERM" \in shutdown.proc[p].sigs
               /\ \E f \in StopCalls :
                    /\ TimeoutFires(f)
                    /\ shutdown.calls[f].awaited = p
                    /\ shutdown.calls[f].timers = "hardKill"
          /\ shutdown.proc[p].st = "exited" => shutdown'.proc[p].sigs = {}
     /\ \A f \in StopCalls :
          TimeoutFires(f) => shutdown.proc[shutdown.calls[f].awaited].st = "running"]_vars

\* ---------------------------------------------------------------------
\* properties of the recorder: failed starts and overlapping stops
\* ---------------------------------------------------------------------
\* The capture processes that are alive.
Alive == {p \in Pids : proc[p].st = "running"}

\* C32: after any sequence of startRecording() and stopRecording() calls,
\* failed starts included, at most one capture process is alive, and it is
\* the one held in currentRecording.
C32_OnlySessionProcessAlive ==
  /\ Cardinality(Alive) <= 1
  /\ \A p \in Alive : currentRecording = p

\* The stopRecording() invocation f has begun its shutdown and has neither
\* returned nor thrown.
InProgress(f) == frames[f].pc \notin {"idle", "done"}

\* C33: a stopRecording() called while an earlier stopRecording() of the same
\* session is in progress runs no second shutdown: the quit command, the
\* escalation timeouts and the finalization attempts of a session belong to
\* at most one invocation.
C33_OneShutdownPerSession ==
  \A f, g \in Frames :
    (f # g /\ InProgress(f) /\ InProgress(g)) => frames[f].awaited # frames[g].awaited

\* ============================================================= FileTracker
\* The two FileTracker classes, src/unnamed/part_002 and src/unnamed/part_004:
\* a Tail on the tracked file calls the 'line' listener once for every line
\* appended, in order; the listener runs to completion.
MaxAppended == 4            \* lines appended to the tracked file
FileTrackers == {"part_002", "part_004"}
\* A line: a JSON object, a JSON text that is no object (123, null, true,
\* "abc"), or text that JSON.parse rejects.
LineForms == {"object", "primitive", "text"}

\* JSON.parse(data)
JsonParse(line) == IF line = "text" THEN "SyntaxError" ELSE line

\* event.trackedFile = this.trackedFile, in module (strict) code: a property
\* of a primitive or of null cannot be set
SetsTrackedFile(event) == event # "primitive"

\* The 'line' listener of part_002: the events given to the callback.  What
\* JSON.parse rejects is wrapped as {message, timestamp, raw: true}; an error
\* after that is caught by the outer try and logged.
OnLine_002(n, line) ==
  LET event == IF JsonParse(line) = "SyntaxError" THEN "wrapper" ELSE JsonParse(line)
  IN IF SetsTrackedFile(event)
       THEN <<[n |-> n, form |-> IF event = "wrapper" THEN "raw" ELSE "parsed"]>>
       ELSE << >>

\* The 'line' listener of part_004: JSON.parse and the callback are in one
\* try block, whose catch logs the error.
OnLine_004(n, line) ==
  IF JsonParse(line) = "SyntaxError"
    THEN << >>
    ELSE <<[n |-> n, form |-> "parsed"]>>

\* A line is appended to the tracked file and the listener is called with it.
LineAppended(line) ==
  /\ fileTracker.pc = "ready"
  /\ Len(fileTracker.appended) < MaxAppended
  /\ LET n == Len(fileTracker.appended) + 1
     IN fileTracker' = [fileTracker EXCEPT
          !.appended = Append(@, line),
          !.events = @ \o (IF fileTracker.class = "part_002"
                             THEN OnLine_002(n, line)
                             ELSE OnLine_004(n, line))]
  /\ UNCHANGED <<recorderVars, trim, router, perf, dom, shutdown, logsManager, fileManager, logsTracker, background>>

InitFileTracker ==
  /\ RecorderInit
  /\ background = NoBackground
  /\ logsTracker = NoLogsTracker
  /\ fileManager = NoFileManager
  /\ logsManager = NoLogsManager
  /\ trim = NoTrim
  /\ router = NoRouter
  /\ perf = NoPerf
  /\ dom = NoDom
  /\ shutdown = NoShutdown
  /\ \E class \in FileTrackers :
       fileTracker = [pc |-> "ready", class |-> class, appended |-> << >>, events |-> << >>]

NextFileTracker == \E line \in LineForms : LineAppended(line)

SpecFileTracker == InitFileTracker /\ [][NextFileTracker]_vars

\* C31: every line appended to the tracked file has given exactly one event
\* to the callback, in order: the parsed value for a JSON object, a wrapper
\* with the raw text for a line that is no JSON, and one of the two for a
\* JSON text that is no object.
C31_OneEventPerLine ==
  fileTracker.pc = "ready" =>
    /\ Len(fileTracker.events) = Len(fileTracker.appended)
    /\ \A i \in 1..Len(fileTracker.events) :
         /\ fileTracker.events[i].n = i
         /\ i <= Len(fileTracker.appended) =>
              /\ fileTracker.appended[i] = "object" => fileTracker.events[i].form = "parsed"
              /\ fileTracker.appended[i] = "text" => fileTracker.events[i].form = "raw"

\* ---------------------------------------------------------------------
\* further properties of the performance tracker
\* ---------------------------------------------------------------------
\* stop() has returned and start() has not been called since.
Stopped(p) == p.result.returned /\ ~p.interval

\* C34: once stop() has returned the tracker is quiescent, also when a tick
\* was in flight at the stop: until the next start() no sample is added to
\* the list or to the file, and the sample file does not exist.
C34_QuiescentAfterStop ==
  /\ [](perf.pc = "ready" => (Stopped(perf) => ~perf.fileExists))
  /\ [][(perf.pc = "ready" /\ Stopped(perf) /\ Stopped(perf')) =>
          /\ perf'.samples = perf.samples
          /\ perf'.fileLines = perf.fileLines]_vars

\* C35: the network rate of every sample, recorded or still waiting for
\* pidusage, is at least 0, whatever reads of the counters succeeded and
\* failed before it.
C35_RatesNotNegative ==
  perf.pc = "ready" =>
    /\ \A i \in 1..Len(perf.samples) : perf.samples[i].network.bytesReceivedPerSec >= 0
    /\ \A i \in 1..Len(perf.pending) : perf.pending[i].network.bytesReceivedPerSec >= 0

\* ---------------------------------------------------------------------
\* trimLogs: the statuses it returns
\* ---------------------------------------------------------------------
\* C36: every status trimLogs returns has a count equal to the number of
\* events in its trimmed file (0 without one) and a trimmedFileLocation if
\* and only if that count is positive, also when its source file is missing.
C36_ReturnedCountsMatchArtifacts ==
  [][TrimStep =>
       \A k \in 1..Len(trim'.returned) :
         LET i == trim'.returned[k]
             status == trim'.statuses[i]
         IN /\ status.count = Len(trim'.artifacts[i])
            /\ (status.trimmedFileLocation # NoArtifact) <=> (status.count > 0)]_vars

\* ======================================================= LogsTrackerManager
\* LogsTrackerManager.startNew / stop / stopAll of src/unnamed/part_002.  An
\* id is the sequence of the parts that '_' separates in it, so that the
\* template `${recorderId}_${screenId}` is a concatenation and
\* key.split('_') is the key itself.
MaxTrackers == 3            \* startNew() calls
IdValues == {<<"rec">>, <<"rec", "a">>}
ScreenIdValues == {<<"1">>, <<"2">>}
\* `${recorderId}_${screenId}`
InstanceKey(recorderId, screenId) == recorderId \o screenId
InstanceKeys == {InstanceKey(r, sc) : r \in IdValues, sc \in ScreenIdValues}
\* const [recorderId, screenId] = key.split('_'): the first two parts
SplitKey(key) == [recorderId |-> <<key[1]>>, screenId |-> <<key[2]>>]

\* stop({recorderId, screenId}) on the manager m: the instance under the key
\* is deleted and its tracker destroyed; without an instance nothing happens.
StopInstance(m, recorderId, screenId) ==
  LET key == InstanceKey(recorderId, screenId)
  IN IF key \notin DOMAIN m.instances \/ m.instances[key] = NULL THEN m
     ELSE [m EXCEPT !.instances[key] = NULL,
                    !.destroyed = @ \cup {m.instances[key]}]

\* instanceKeys.forEach(key => this.stop(split of key)), from key i on
RECURSIVE StopKeys(_, _, _)
StopKeys(m, keys, i) ==
  IF i > Len(keys) THEN m
  ELSE LET ids == SplitKey(keys[i])
       IN StopKeys(StopInstance(m, ids.recorderId, ids.screenId), keys, i + 1)

\* Object.keys(this.instances), in insertion order
ObjectKeys(m) ==
  LET Present(key) == m.instances[key] # NULL IN SelectSeq(m.order, Present)

\* startNew({recorderId, screenId}): a new CLILogsTracker is stored under the
\* key; an instance that was there is replaced.
StartNew(recorderId, screenId) ==
  /\ logsManager.pc = "ready"
  /\ logsManager.created < MaxTrackers
  /\ LET key == InstanceKey(recorderId, screenId)
         tracker == logsManager.created + 1
     IN logsManager' = [logsManager EXCEPT
          !.op = "startNew",
          !.created = tracker,
          !.order = IF logsManager.instances[key] # NULL
                      THEN @
                      ELSE LET Other(k) == k # key IN Append(SelectSeq(@, Other), key),
          !.instances[key] = tracker]
  /\ UNCHANGED <<recorderVars, trim, router, perf, dom, shutdown, fileTracker, fileManager, logsTracker, background>>

\* stop({recorderId, screenId})
ManagerStop(recorderId, screenId) ==
  /\ logsManager.pc = "ready"
  /\ logsManager' = [StopInstance(logsManager, recorderId, screenId) EXCEPT !.op = "stop"]
  /\ UNCHANGED <<recorderVars, trim, router, perf, dom, shutdown, fileTracker, fileManager, logsTracker, background>>

\* stopAll(), also as the first step of destroy()
StopAll ==
  /\ logsManager.pc = "ready"
  /\ logsManager' = [StopKeys(logsManager, ObjectKeys(logsManager), 1) EXCEPT !.op = "stopAll"]
  /\ UNCHANGED <<recorderVars, trim, router, perf, dom, shutdown, fileTracker, fileManager, logsTracker, background>>

InitLogsManager ==
  /\ RecorderInit
  /\ background = NoBackground
  /\ logsTracker = NoLogsTracker
  /\ fileManager = NoFileManager
  /\ fileTracker = NoFileTracker
  /\ trim = NoTrim
  /\ router = NoRouter
  /\ perf = NoPerf
  /\ dom = NoDom
  /\ shutdown = NoShutdown
  /\ logsManager = [pc |-> "ready", op |-> "new", created |-> 0, destroyed |-> {},
                    order |-> << >>,
                    instances |-> [key \in InstanceKeys |-> NULL]]

NextLogsManager ==
  \/ \E recorderId \in IdValues, screenId \in ScreenIdValues : StartNew(recorderId, screenId)
  \/ \E recorderId \in IdValues, screenId \in ScreenIdValues : ManagerStop(recorderId, screenId)
  \/ StopAll

SpecLogsManager == InitLogsManager /\ [][NextLogsManager]_vars

\* C37: after stopAll() no instance is left and every tracker that startNew
\* created has been destroyed, whatever the ids were and also when startNew
\* was called twice for the same ids.
C37_StopAllLeavesNothing ==
  (logsManager.pc = "ready" /\ logsManager.op = "stopAll") =>
    /\ \A key \in InstanceKeys : logsManager.instances[key] = NULL
    /\ logsManager.destroyed = 1..logsManager.created

\* ======================================================= FileTrackerManager
\* FileTrackerManager of src/lib/logs/files/manager.cjs (the class of
\* src/lib/tracking/FileTrackerManager.js has the same subscribe, unsubscribe
\* and #sendEvent).  A callback either returns or throws.
MaxFileTrackers == 3        \* file trackers created
MaxCallbacks == 3           \* callbacks in one entry
FilePaths == {"a.log", "b.log"}
FileCallbacks == {"cb1", "cb2", "thrower"}
Throws(callback) == callback = "thrower"
NoFileTrackerId == 0
NoEntry == [callbacks |-> << >>, tracker |-> NoFileTrackerId]

\* #sendEvent without the try/catch around the call: the first callback that
\* throws ends the loop.
RECURSIVE SendEvent_Uncaught(_, _)
SendEvent_Uncaught(callbacks, i) ==
  IF i > Len(callbacks) THEN << >>
  ELSE IF Throws(callbacks[i]) THEN <<callbacks[i]>>
  ELSE <<callbacks[i]>> \o SendEvent_Uncaught(callbacks, i + 1)

\* for (const callback of callbacks) { try { callback(event) } catch {...} }:
\* the callbacks that were called, from callback i on
RECURSIVE SendEvent(_, _)
SendEvent(callbacks, i) ==
  IF i > Len(callbacks) THEN << >>
  ELSE IF Throws(callbacks[i]) THEN <<callbacks[i]>> \o SendEvent(callbacks, i + 1)
  ELSE <<callbacks[i]>> \o SendEvent(callbacks, i + 1)

\* tracker.destroy() on tracker t
DestroyTracker(created, t) == [created EXCEPT ![t].live = FALSE]

\* subscribe(filePath, callback)
FileSubscribe(filePath, callback) ==
  /\ fileManager.pc = "ready"
  /\ Len(fileManager.byFilePath[filePath].callbacks) < MaxCallbacks
  /\ LET entry == fileManager.byFilePath[filePath]
         t == Len(fileManager.trackers) + 1
     IN IF entry = NoEntry
          THEN /\ t <= MaxFileTrackers
               /\ fileManager' = [fileManager EXCEPT
                    !.op = "subscribe", !.called = << >>,
                    !.trackers = Append(@, [path |-> filePath, live |-> TRUE]),
                    !.byFilePath[filePath] = [callbacks |-> <<callback>>, tracker |-> t]]
          ELSE fileManager' = [fileManager EXCEPT
                    !.op = "subscribe", !.called = << >>,
                    !.byFilePath[filePath].callbacks = Append(@, callback)]
  /\ UNCHANGED <<recorderVars, trim, router, perf, dom, shutdown, fileTracker, logsManager, logsTracker, background>>

\* unsubscribe(filePath, callback)
FileUnsubscribe(filePath, callback) ==
  /\ fileManager.pc = "ready"
  /\ LET entry == fileManager.byFilePath[filePath]
         Other(cb) == cb # callback
         rest == SelectSeq(entry.callbacks, Other)
     IN fileManager' =
          IF entry = NoEntry THEN [fileManager EXCEPT !.op = "unsubscribe", !.called = << >>]
          ELSE IF rest = << >>
            THEN [fileManager EXCEPT !.op = "unsubscribe", !.called = << >>,
                                     !.trackers = DestroyTracker(@, entry.tracker),
                                     !.byFilePath[filePath] = NoEntry]
            ELSE [fileManager EXCEPT !.op = "unsubscribe", !.called = << >>,
                                     !.byFilePath[filePath].callbacks = rest]
  /\ UNCHANGED <<recorderVars, trim, router, perf, dom, shutdown, fileTracker, logsManager, logsTracker, background>>

\* A file tracker that is still watching reports an event: the callback it
\* was constructed with runs #sendEvent(filePath, event).
TrackerEvent(t) ==
  /\ fileManager.pc = "ready"
  /\ t \in 1..Len(fileManager.trackers)
  /\ fileManager.trackers[t].live
  /\ LET entry == fileManager.byFilePath[fileManager.trackers[t].path]
     IN fileManager' = [fileManager EXCEPT
          !.op = "event",
          !.called = IF entry = NoEntry THEN << >> ELSE SendEvent(entry.callbacks, 1)]
  /\ UNCHANGED <<recorderVars, trim, router, perf, dom, shutdown, fileTracker, logsManager, logsTracker, background>>

\* destroy(): every tracker of an entry is destroyed and the entries go
DestroyManager ==
  /\ fileManager.pc = "ready"
  /\ fileManager' = [fileManager EXCEPT
       !.op = "destroy", !.called = << >>,
       !.trackers = [t \in DOMAIN @ |->
                       IF \E filePath \in FilePaths : fileManager.byFilePath[filePath].tracker = t
                         THEN [@[t] EXCEPT !.live = FALSE] ELSE @[t]],
       !.byFilePath = [filePath \in FilePaths |-> NoEntry]]
  /\ UNCHANGED <<recorderVars, trim, router, perf, dom, shutdown, fileTracker, logsManager, logsTracker, background>>

InitFileManager ==
  /\ RecorderInit
  /\ background = NoBackground
  /\ logsTracker = NoLogsTracker
  /\ logsManager = NoLogsManager
  /\ fileTracker = NoFileTracker
  /\ trim = NoTrim
  /\ router = NoRouter
  /\ perf = NoPerf
  /\ dom = NoDom
  /\ shutdown = NoShutdown
  /\ fileManager = [pc |-> "ready", op |-> "new", called |-> << >>, trackers |-> << >>,
                    byFilePath |-> [filePath \in FilePaths |-> NoEntry]]

NextFileManager ==
  \/ \E filePath \in FilePaths, callback \in FileCallbacks : FileSubscribe(filePath, callback)
  \/ \E filePath \in FilePaths, callback \in FileCallbacks : FileUnsubscribe(filePath, callback)
  \/ \E t \in 1..MaxFileTrackers : TrackerEvent(t)
  \/ DestroyManager

SpecFileManager == InitFileManager /\ [][NextFileManager]_vars

\* the file trackers of a path that are still watching
LiveTrackers(m, filePath) ==
  {t \in 1..Len(m.trackers) : m.trackers[t].path = filePath /\ m.trackers[t].live}
Registered(m, filePath) == m.byFilePath[filePath].callbacks

\* C38: a path has a watching tracker exactly while a callback is registered
\* for it, and never more than one; a subscribe creates a tracker exactly
\* when it registers the first callback of the path, an unsubscribe destroys
\* one exactly when it removes the last; and an event of the tracker calls
\* every registered callback, those after a throwing one included.
C38_TrackerIffCallbacks ==
  /\ [](\A filePath \in FilePaths :
          /\ Cardinality(LiveTrackers(fileManager, filePath)) =
               (IF Registered(fileManager, filePath) # << >> THEN 1 ELSE 0)
          /\ Registered(fileManager, filePath) # << >> =>
               LiveTrackers(fileManager, filePath) = {fileManager.byFilePath[filePath].tracker})
  /\ [][/\ fileManager'.op = "subscribe" =>
             \A filePath \in FilePaths :
               (Len(fileManager'.trackers) > Len(fileManager.trackers)
                  /\ fileManager'.trackers[Len(fileManager'.trackers)].path = filePath)
               <=> (Registered(fileManager, filePath) = << >>
                      /\ Registered(fileManager', filePath) # << >>)
        /\ fileManager'.op = "unsubscribe" =>
             \A filePath \in FilePaths :
               (LiveTrackers(fileManager, filePath) # LiveTrackers(fileManager', filePath))
               <=> (Registered(fileManager, filePath) # << >>
                      /\ Registered(fileManager', filePath) = << >>)
        /\ fileManager'.op = "event" =>
             \E filePath \in FilePaths : fileManager'.called = Registered(fileManager, filePath)
       ]_vars

\* an event reached the callback registered after a throwing one, and a
\* tracker was destroyed by the unsubscribe of the last callback of its path
C38_Witness ==
  /\ fileManager.pc = "ready"
  /\ fileManager.op = "event"
  /\ Len(fileManager.called) = 3
  /\ Throws(fileManager.called[1])
  /\ ~Throws(fileManager.called[3])
  /\ \E t \in 1..Len(fileManager.trackers) : ~fileManager.trackers[t].live

\* ============================================================ log trackers
\* CLILogsTracker of src/lib/logs/cli/index.js, constructed with a directory,
\* and LogsTracker of src/lib/tracking/LogsTracker.js.  The event file is the
\* sequence of what was appended to it: the JSON text of an event (kept whole,
\* with its logFile tag and the file it came from) and single characters.
MaxTracked == 3             \* files that a tracker starts to track
MaxRecorded == 3            \* events appended to the event file
TrackerClasses == {"CLILogsTracker", "LogsTracker"}
LogPaths == {"app.log", "db.log"}
NoItem == 0
NoLogFile == [item |-> NoItem, count |-> 0]
NoReport == [reported |-> FALSE, count |-> 0]
Char(c) == [c |-> c, logFile |-> NoItem, from |-> ""]
\* JSON.stringify({...event, logFile: index})
JsonText(index, filePath) == [c |-> "json", logFile |-> index, from |-> filePath]
\* what follows the JSON text: the string '\n' in cli/index.js, the string
\* '\\n' (a backslash and the letter n) in LogsTracker.js
LineEnd(class) ==
  IF class = "LogsTracker" THEN <<Char("backslash"), Char("n")>> ELSE <<Char("LF")>>

\* the sum of the counts of the files the tracker holds
RECURSIVE SumCounts(_, _)
SumCounts(statuses, paths) ==
  IF paths = {} THEN 0
  ELSE LET filePath == CHOOSE q \in paths : TRUE
       IN statuses[filePath].count + SumCounts(statuses, paths \ {filePath})

\* getStatus()[0].count / getStats().count
TotalCount(t) == SumCounts(t.files, {filePath \in LogPaths : t.files[filePath] # NoLogFile})

\* #startFileTracker(filePath) of an existing file / startTracking(filePath)
LogsStartTracking(filePath) ==
  /\ logsTracker.pc = "ready"
  /\ logsTracker.fileIndex < MaxTracked
  /\ logsTracker' =
       IF logsTracker.files[filePath] # NoLogFile
         THEN [logsTracker EXCEPT !.report = NoReport]
         ELSE [logsTracker EXCEPT
                 !.report = NoReport,
                 !.fileIndex = @ + 1,
                 !.files[filePath] = [item |-> logsTracker.fileIndex + 1, count |-> 0]]
  /\ UNCHANGED <<recorderVars, trim, router, perf, dom, shutdown, fileTracker, logsManager, fileManager, background>>

\* removeFile(filePath) -> #stopFileTracker(filePath) / stopTracking(filePath)
LogsStopTracking(filePath) ==
  /\ logsTracker.pc = "ready"
  /\ logsTracker' = [logsTracker EXCEPT !.report = NoReport, !.files[filePath] = NoLogFile]
  /\ UNCHANGED <<recorderVars, trim, router, perf, dom, shutdown, fileTracker, logsManager, fileManager, background>>

\* LogsTracker.startRecording(recordingPath) / stopRecording()
LogsSetRecording(on) ==
  /\ logsTracker.pc = "ready"
  /\ logsTracker.class = "LogsTracker"
  /\ logsTracker' = [logsTracker EXCEPT !.report = NoReport, !.recording = on]
  /\ UNCHANGED <<recorderVars, trim, router, perf, dom, shutdown, fileTracker, logsManager, fileManager, background>>

\* the callback subscribed for filePath is called with an event;
\* appended = FALSE is an appendFileSync that throws
LogsCallback(filePath, appended) ==
  /\ logsTracker.pc = "ready"
  /\ logsTracker.files[filePath] # NoLogFile
  /\ Len(SelectSeq(logsTracker.file, LAMBDA x : x.c = "json")) < MaxRecorded
  /\ logsTracker' =
       IF ~logsTracker.recording \/ ~appended
         THEN [logsTracker EXCEPT !.report = NoReport]
         ELSE [logsTracker EXCEPT
                 !.report = NoReport,
                 !.file = @ \o <<JsonText(logsTracker.files[filePath].item, filePath)>>
                            \o LineEnd(logsTracker.class),
                 !.files[filePath].count = @ + 1]
  /\ UNCHANGED <<recorderVars, trim, router, perf, dom, shutdown, fileTracker, logsManager, fileManager, background>>

\* getStatus() / getStats()
LogsGetStatus ==
  /\ logsTracker.pc = "ready"
  /\ logsTracker' = [logsTracker EXCEPT
       !.report = [reported |-> TRUE, count |-> TotalCount(logsTracker)]]
  /\ UNCHANGED <<recorderVars, trim, router, perf, dom, shutdown, fileTracker, logsManager, fileManager, background>>

\* destroy(): CLILogsTracker returns getStatus() taken before the files are
\* stopped; LogsTracker returns nothing
LogsDestroy ==
  /\ logsTracker.pc = "ready"
  /\ logsTracker' = [logsTracker EXCEPT
       !.pc = "destroyed",
       !.report = IF logsTracker.class = "CLILogsTracker"
                    THEN [reported |-> TRUE, count |-> TotalCount(logsTracker)]
                    ELSE NoReport,
       !.recording = IF logsTracker.class = "LogsTracker" THEN FALSE ELSE @,
       !.files = [filePath \in LogPaths |-> NoLogFile]]
  /\ UNCHANGED <<recorderVars, trim, router, perf, dom, shutdown, fileTracker, logsManager, fileManager, background>>

InitLogsTracker ==
  /\ RecorderInit
  /\ background = NoBackground
  /\ fileManager = NoFileManager
  /\ logsManager = NoLogsManager
  /\ fileTracker = NoFileTracker
  /\ trim = NoTrim
  /\ router = NoRouter
  /\ perf = NoPerf
  /\ dom = NoDom
  /\ shutdown = NoShutdown
  /\ \E class \in TrackerClasses :
       logsTracker = [pc |-> "ready", class |-> class, fileIndex |-> 0,
                      files |-> [filePath \in LogPaths |-> NoLogFile],
                      recording |-> (class = "CLILogsTracker"),
                      file |-> << >>, report |-> NoReport]

NextLogsTracker ==
  \/ \E filePath \in LogPaths : LogsStartTracking(filePath)
  \/ \E filePath \in LogPaths : LogsStopTracking(filePath)
  \/ \E on \in BOOLEAN : LogsSetRecording(on)
  \/ \E filePath \in LogPaths, appended \in BOOLEAN : LogsCallback(filePath, appended)
  \/ LogsGetStatus
  \/ LogsDestroy

SpecLogsTracker == InitLogsTracker /\ [][NextLogsTracker]_vars

\* the event file is a sequence of lines, each one event and a line feed
OneEventPerLine(file) ==
  /\ Len(file) % 2 = 0
  /\ \A i \in 1..Len(file) : file[i].c = (IF i % 2 = 1 THEN "json" ELSE "LF")
EventsIn(file) == SelectSeq(file, LAMBDA x : x.c = "json")

\* C39: the event file holds one line-feed-terminated line per recorded
\* event, lines of different source files carry different logFile tags, the
\* tracked files have different indices, and a reported count is the number
\* of lines appended.
C39_OneLinePerEventAndCount ==
  /\ OneEventPerLine(logsTracker.file)
  /\ \A i, j \in 1..Len(logsTracker.file) :
       (logsTracker.file[i].c = "json" /\ logsTracker.file[j].c = "json"
          /\ logsTracker.file[i].from # logsTracker.file[j].from)
       => logsTracker.file[i].logFile # logsTracker.file[j].logFile
  /\ \A p1, p2 \in LogPaths :
       (p1 # p2 /\ logsTracker.files[p1] # NoLogFile /\ logsTracker.files[p2] # NoLogFile)
       => logsTracker.files[p1].item # logsTracker.files[p2].item
  /\ logsTracker.report.reported =>
       logsTracker.report.count = Len(EventsIn(logsTracker.file))

\* ============================================ background recording process
\* runBackgroundRecording of src/unnamed/part_007: startRecording() is
\* awaited, the status file is written, the handlers of SIGINT and SIGTERM
\* are registered; handleShutdown awaits stopRecording() and exits.  Writes
\* of the status file succeed; the write of the result file may fail.
MaxSignals == 4             \* signals delivered to the process
StopSignals == {"SIGINT", "SIGTERM"}
NoStatusFile == [written |-> FALSE, isRecording |-> FALSE]
\* writeStatus(status): the status file is replaced
WriteStatus(isRecording) == [written |-> TRUE, isRecording |-> isRecording]

\* recordingResult = await startRecording(...) settles
BgStartSettles(ok) ==
  /\ background.pc = "starting"
  /\ background' =
       IF ok
         THEN [background EXCEPT !.pc = "waiting", !.status = WriteStatus(TRUE)]
         ELSE [background EXCEPT !.pc = "exited", !.status = WriteStatus(FALSE),
                                 !.exitCode = 1]
  /\ UNCHANGED <<recorderVars, trim, router, perf, dom, shutdown, fileTracker, logsManager, fileManager, logsTracker>>

\* A signal arrives.  Before the handlers are registered it ends the process;
\* afterwards handleShutdown(signal) runs up to its await.
BgSignal(signal) ==
  /\ background.pc \in {"starting", "waiting", "stopping"}
  /\ Len(background.received) < MaxSignals
  /\ background' =
       IF background.pc = "starting"
         THEN [background EXCEPT !.pc = "exited", !.received = Append(@, signal),
                                 !.exitCode = 2]
         ELSE IF background.isShuttingDown
           THEN [background EXCEPT !.received = Append(@, signal)]
           ELSE [background EXCEPT !.received = Append(@, signal),
                                   !.isShuttingDown = TRUE,
                                   !.stopCalls = @ + 1,
                                   !.pc = "stopping"]
  /\ UNCHANGED <<recorderVars, trim, router, perf, dom, shutdown, fileTracker, logsManager, fileManager, logsTracker>>

\* await stopRecording() settles inside handleShutdown: with a result the
\* result file and the status file are written and the process exits with 0;
\* when it throws, the catch exits with 1.
BgStopSettles(ok, resultWritten) ==
  /\ background.pc = "stopping"
  /\ background' =
       IF ok
         THEN [background EXCEPT !.pc = "exited", !.result = resultWritten,
                                 !.status = WriteStatus(FALSE), !.exitCode = 0]
         ELSE [background EXCEPT !.pc = "exited", !.exitCode = 1]
  /\ UNCHANGED <<recorderVars, trim, router, perf, dom, shutdown, fileTracker, logsManager, fileManager, logsTracker>>

InitBackground ==
  /\ RecorderInit
  /\ logsTracker = NoLogsTracker
  /\ fileManager = NoFileManager
  /\ logsManager = NoLogsManager
  /\ fileTracker = NoFileTracker
  /\ trim = NoTrim
  /\ router = NoRouter
  /\ perf = NoPerf
  /\ dom = NoDom
  /\ shutdown = NoShutdown
  /\ background = [pc |-> "starting", isShuttingDown |-> FALSE, received |-> << >>,
                   stopCalls |-> 0, status |-> NoStatusFile, result |-> FALSE,
                   exitCode |-> 0]

NextBackground ==
  \/ \E ok \in BOOLEAN : BgStartSettles(ok)
  \/ \E signal \in StopSignals : BgSignal(signal)
  \/ \E ok, resultWritten \in BOOLEAN : BgStopSettles(ok, resultWritten)

SpecBackground == InitBackground /\ [][NextBackground]_vars

\* C40: stopRecording() is called at most once however many signals arrive,
\* and a process that exited after handling a stop signal left a status file
\* that reports isRecording false.
C40_OneStopAndStatusNotRecording ==
  /\ background.stopCalls <= 1
  /\ (background.pc = "exited" /\ background.stopCalls > 0) =>
       (background.status.written /\ ~background.status.isRecording)
====
